---- MODULE Spec2Model ----
(***************************************************************************)
(* Weather data pipeline: the batch loader (database/loader/load_data.py), *)
(* the record merger and the collector pipeline                            *)
(* (weather_data_collector/scripts/main.py), the quality validator and the *)
(* persistence writer (weather_data_collector/utils.py), the location      *)
(* registry (weather_data_collector/config.py), the fetch client           *)
(* (weather_data_collector/api_client.py) and the report engine            *)
(* (database/reporter/generate_report.py).                                 *)
(*                                                                         *)
(* Each component has its own specification over the shared variable list; *)
(* a specification leaves the variables of the other components at their   *)
(* idle values.                                                            *)
(***************************************************************************)
EXTENDS Integers, Sequences, FiniteSets, Bags, TLC

VARIABLES
    \* ---- relational store (PostgreSQL) ----
    weather_data,   \* bag of committed rows of table weather_data
    \* ---- a caller that loads the same records twice in succession ----
    records,        \* argument records (list of dicts read from a JSONL file)
    data_type,      \* argument data_type
    outcomes,       \* how each call made so far ended, oldest first
    faults,         \* whether the store failed during each call made so far
    snapshots,      \* weather_data as it was when each call started
    results,        \* what each call made so far returned and logged
    \* ---- a caller of WeatherDataPipeline.merge_datasets ----
    df_historical,  \* argument df_historical (the call converts its dates)
    df_forecast,    \* argument df_forecast   (the call converts its dates)
    df_combined,    \* what the last call returned: None or a frame
    merge_calls,    \* calls of merge_datasets made so far
    sort_build,     \* how this build's single-column sort orders equal dates
    \* ---- a caller of DataUtils.validate_data_quality ----
    df,             \* argument df (the call converts its dates)
    report,         \* what the call returned: None before it, then the dict
    \* ---- a caller of DataUtils.save_to_json and DataUtils.load_json_data ----
    save_df,        \* argument df of save_to_json
    parent_dir,     \* what the file system holds at output_path.parent
    output_file,    \* the file at output_path: None, or its lines
    file_before,    \* output_file as it was when save_to_json was called
    save_faults,    \* what the file system did to the calls of save_to_json
    save_outcome,   \* how save_to_json ended: its return value or its exception
    loaded,         \* what load_json_data returned, once it has been called
    \* ---- a caller of the constructor of Location ----
    lat,            \* argument lat
    lon,            \* argument lon
    location,       \* how the construction ended: the object or its exception
    \* ---- one run of the loader's main() ----
    pc,             \* the step main() is about to take
    next_file,      \* position in the list of input files of the next to load
    input_files,    \* what DATA_PATH holds for each input file
    locations,      \* committed rows of table locations
    fk_present,     \* table weather_data has constraint fk_weather_location
    conn,           \* the connection: not made yet, open or closed
    failed_step,    \* the step whose exception ended the run, or None
    exit_code,      \* exit status of the process, None while it runs
    original,       \* the store as it was before main() ran the first time
    first_run,      \* how and where an earlier run of main() ended, or None
    \* ---- one run of the report engine's main() ----
    report_pc,      \* where main() of generate_report.py stands
    report_next,    \* position in REPORT_STEPS of the next call of the try
    sections,       \* the sections printed in full so far, oldest first
    report_failed,  \* the calls that raised, oldest first
    report_conn,    \* the connection: not made yet, open or closed
    report_exit,    \* exit status of the process, None while it runs
    \* ---- a caller of WeatherAPIClient._fetch_data ----
    fetch_params,   \* argument params
    api_requests,   \* requests sent to the weather API so far
    fetch_outcome,  \* how the call ended: its return value or its exception
    \* ---- a caller of WeatherDataPipeline.run_pipeline ----
    run_flags,      \* arguments include_historical, include_forecast,
                    \* create_combined
    requested,      \* argument locations: None or a list of names
    pipeline_pc,    \* where run_pipeline stands
    to_process,     \* locations_to_process
    processed,      \* turns of the loop over locations_to_process taken
    pipeline_results, \* the dict results, as its entries in insertion order
    pipeline_log,   \* how each call of a process_location_ method went
    pipeline_outcome  \* how the call ended: its return value or its exception

loaderVars == <<weather_data, records, data_type, outcomes, faults, snapshots,
                results>>

mergeVars == <<df_historical, df_forecast, df_combined, merge_calls, sort_build>>

validateVars == <<df, report>>

writerVars == <<save_df, parent_dir, output_file, file_before, save_faults,
                save_outcome, loaded>>

locationVars == <<lat, lon, location>>

mainVars == <<pc, next_file, input_files, locations, fk_present, conn,
              failed_step, exit_code, original, first_run>>

reportVars == <<report_pc, report_next, sections, report_failed, report_conn,
                report_exit>>

fetchVars == <<fetch_params, api_requests, fetch_outcome>>

pipelineVars == <<run_flags, requested, pipeline_pc, to_process, processed,
                  pipeline_results, pipeline_log, pipeline_outcome>>

vars == <<loaderVars, mergeVars, validateVars, writerVars, locationVars,
          mainVars, reportVars, fetchVars, pipelineVars>>

(***************************************************************************)
(* Bounds                                                                  *)
(***************************************************************************)
MaxDay == 1        \* calendar days 1..MaxDay occur in records and rows
MaxBatch == 2      \* longest list of records handed to one load call
MaxRows == 1       \* most rows in the store before the first call
MaxDate == 2       \* calendar days 1..MaxDate occur in the frames to merge
MaxHistorical == 2 \* most rows of the historical frame
MaxForecast == 1   \* most rows of the forecast frame
MaxRecords == 10   \* most rows of the frame to validate
MaxNulls == 1      \* most missing values in one column of that frame
MaxDistinct == 2   \* most different values in one column of that frame
MaxSaved == 2      \* most rows of the frame to save
MaxOff == 1        \* coordinates lie within MaxOff degrees of a limit, or are 0
MaxRequested == 2  \* longest list of names handed to run_pipeline

(***************************************************************************)
(* Batch loader: data                                                      *)
(***************************************************************************)
\* load_data.py:26-29
LOCATIONS == [iowa_center |-> 1, illinois_center |-> 2]

LocationIds == {LOCATIONS[n] : n \in DOMAIN LOCATIONS}

\* names a record's 'location' field can carry; the last is not registered
LocationNames == {"iowa_center", "illinois_center", "unknown_center"}

DataTypes == {"historical", "forecast"}

Days == 1..MaxDay

\* stand-in for the nine non-key measurement columns of a record
Vals == {10, 99}

\* one line of a JSONL file, as json.loads returns it
Record == [location : LocationNames, date : Days, value : Vals]

\* one row of table weather_data
Row == [location_id : LocationIds, date : Days, data_type : DataTypes,
        value : Vals]

Batches == UNION {[1..n -> Record] : n \in 0..MaxBatch}

\* Faulty variant: a name LOCATIONS does not hold is given the next free id.
LookupOrNext(name) ==
    IF name \in DOMAIN LOCATIONS THEN LOCATIONS[name]
    ELSE Cardinality(DOMAIN LOCATIONS) + 1

\* LOCATIONS.get(name): the id, or None (modelled as 0, which `not` treats
\* like None)
LookupLocation(name) ==
    IF name \in DOMAIN LOCATIONS THEN LOCATIONS[name] ELSE 0

\* natural key of a stored row: the columns of the ON CONFLICT target
RowKey(r) == <<r.location_id, r.date, r.data_type>>

HasKey(table, k) == \E r \in BagToSet(table) : RowKey(r) = k

AllKeys == LocationIds \X Days \X DataTypes

(***************************************************************************)
(* insert_weather_data, lines 147-168: the tuples prepared for the batch   *)
(***************************************************************************)
\* Faulty variant: `break` in place of `continue`; an unknown location ends the
\* preparation.
RECURSIVE PrepareInsertDataBreak(_, _)
PrepareInsertDataBreak(recs, dtype) ==
    IF recs = <<>> THEN <<>>
    ELSE LET record == Head(recs)
             location_id == LookupLocation(record.location)
         IN IF location_id = 0
            THEN <<>>
            ELSE <<[location_id |-> location_id,
                    date |-> record.date,
                    data_type |-> dtype,
                    value |-> record.value]>>
                 \o PrepareInsertDataBreak(Tail(recs), dtype)

RECURSIVE PrepareInsertData(_, _)
PrepareInsertData(recs, dtype) ==
    IF recs = <<>> THEN <<>>
    ELSE LET record == Head(recs)
             location_id == LookupLocation(record.location)
         IN IF location_id = 0
            THEN PrepareInsertData(Tail(recs), dtype)      \* continue
            ELSE <<[location_id |-> location_id,
                    date |-> record.date,
                    data_type |-> dtype,
                    value |-> record.value]>>
                 \o PrepareInsertData(Tail(recs), dtype)

\* Faulty variant: a plain INSERT into a table without the unique constraint.
InsertPlain(table, row) == table (+) SetToBag({row})

\* Faulty variant: ON CONFLICT ... DO UPDATE SET value = EXCLUDED.value.
InsertOnConflictDoUpdate(table, row) ==
    LET old == {r \in BagToSet(table) : <<r.location_id, r.date, r.data_type>>
                                        = <<row.location_id, row.date, row.data_type>>}
        kept == [r \in BagToSet(table) \ old |-> table[r]]
    IN kept (+) SetToBag({row})

\* One INSERT ... ON CONFLICT (location_id, date, data_type) DO NOTHING
\* inside the open transaction.
InsertOnConflictDoNothing(table, row) ==
    IF HasKey(table, RowKey(row))
    THEN table
    ELSE table (+) SetToBag({row})

\* execute_batch(cursor, sql, insert_data): the statements run in list order
RECURSIVE ExecuteBatch(_, _)
ExecuteBatch(table, insert_data) ==
    IF insert_data = <<>> THEN table
    ELSE ExecuteBatch(InsertOnConflictDoNothing(table, Head(insert_data)),
                      Tail(insert_data))

(***************************************************************************)
(* Record merger: data                                                     *)
(***************************************************************************)
\* Option values: None is the empty sequence, a value v is <<v>>.
None == <<>>
Some(v) == <<v>>

\* How a frame's 'date' column holds its days: as text ('2025-01-01', the
\* frames of the tests and of files read back) or as datetime64 (the frames
\* the API client builds with pd.date_range).
DateKinds == {"text", "datetime"}

\* locations a frame's rows can carry, in string order
MergeLocations == {"illinois_center", "iowa_center"}
LocRank == [illinois_center |-> 1, iowa_center |-> 2]

MergeDays == 1..MaxDate

\* one row of a frame; temp stands for the measurement columns
FrameRow == [day : MergeDays, location : MergeLocations, temp : Vals]

\* api_client.py:210-211: a frame built from one response carries one
\* location in every row
OneLocation(rows) ==
    \A i, j \in DOMAIN rows : rows[i].location = rows[j].location

FrameRows(maxLen) ==
    {rows \in UNION {[1..n -> FrameRow] : n \in 0..maxLen} : OneLocation(rows)}

EmptyFrame == [dates |-> "datetime", rows |-> <<>>]

\* df.empty
IsEmpty(frame) == frame.rows = <<>>

\* df['date'] = pd.to_datetime(df['date'])
ToDatetime(frame) == [frame EXCEPT !.dates = "datetime"]

\* the value of a row under subset=['date', 'location']
DateLocation(r) == <<r.day, r.location>>

(***************************************************************************)
(* Record merger: the pandas operations merge_datasets uses                *)
(***************************************************************************)
\* sort order of by=['date', 'location']
DateLocationLess(a, b) ==
    \/ a.day < b.day
    \/ a.day = b.day /\ LocRank[a.location] < LocRank[b.location]

\* insert x behind every row that is not greater than it
RECURSIVE InsertByDateLocation(_, _)
InsertByDateLocation(x, sorted) ==
    IF sorted = <<>> THEN <<x>>
    ELSE IF DateLocationLess(x, Head(sorted))
         THEN <<x>> \o sorted
         ELSE <<Head(sorted)>> \o InsertByDateLocation(x, Tail(sorted))

\* df.sort_values(['date', 'location']): pandas sorts on several columns
\* with lexsort_indexer, which is stable, so rows with equal date and
\* location keep the order of the concatenation.
RECURSIVE SortValuesDateLocation(_)
SortValuesDateLocation(rows) ==
    IF rows = <<>> THEN <<>>
    ELSE InsertByDateLocation(rows[Len(rows)],
                              SortValuesDateLocation(SubSeq(rows, 1, Len(rows) - 1)))

\* Faulty variant: keep='first'.
DropDuplicatesKeepFirst(rows) ==
    LET keep(i) == \A j \in 1..(i - 1) :
                       DateLocation(rows[j]) # DateLocation(rows[i])
        RECURSIVE From(_)
        From(i) == IF i > Len(rows) THEN <<>>
                   ELSE IF keep(i) THEN <<rows[i]>> \o From(i + 1)
                        ELSE From(i + 1)
    IN From(1)

\* Faulty variant: keep=False, every row that has a duplicate is dropped.
DropDuplicatesKeepNone(rows) ==
    LET keep(i) == \A j \in DOMAIN rows :
                       j # i => DateLocation(rows[j]) # DateLocation(rows[i])
        RECURSIVE From(_)
        From(i) == IF i > Len(rows) THEN <<>>
                   ELSE IF keep(i) THEN <<rows[i]>> \o From(i + 1)
                        ELSE From(i + 1)
    IN From(1)

\* df.drop_duplicates(subset=['date', 'location'], keep='last')
DropDuplicatesKeepLast(rows) ==
    LET keep(i) == \A j \in (i + 1)..Len(rows) :
                       DateLocation(rows[j]) # DateLocation(rows[i])
        RECURSIVE From(_)
        From(i) == IF i > Len(rows) THEN <<>>
                   ELSE IF keep(i) THEN <<rows[i]>> \o From(i + 1)
                        ELSE From(i + 1)
    IN From(1)

\* Insert x into rows sorted by day.  The sort of one column is numpy's
\* quicksort, which is not stable: where x lands among rows of its own day
\* is a property of the build.
RECURSIVE InsertByDate(_, _, _)
InsertByDate(x, sorted, build) ==
    IF sorted = <<>> THEN <<x>>
    ELSE IF \/ x.day < Head(sorted).day
            \/ x.day = Head(sorted).day /\ build = "ties_reversed"
         THEN <<x>> \o sorted
         ELSE <<Head(sorted)>> \o InsertByDate(x, Tail(sorted), build)

\* Faulty variant: ascending=False.
RECURSIVE SortValuesDateDescending(_, _)
SortValuesDateDescending(rows, build) ==
    IF rows = <<>> THEN <<>>
    ELSE LET rest == SortValuesDateDescending(SubSeq(rows, 1, Len(rows) - 1),
                                              build)
             x == rows[Len(rows)]
             front == SelectSeq(rest, LAMBDA r : r.day > x.day)
             back == SelectSeq(rest, LAMBDA r : r.day <= x.day)
         IN front \o <<x>> \o back

\* df.sort_values('date').reset_index(drop=True)
RECURSIVE SortValuesDate(_, _)
SortValuesDate(rows, build) ==
    IF rows = <<>> THEN <<>>
    ELSE InsertByDate(rows[Len(rows)],
                      SortValuesDate(SubSeq(rows, 1, Len(rows) - 1), build),
                      build)

SortBuilds == {"ties_kept", "ties_reversed"}

\* Faulty variant: `and` in place of `or`.
BothEmpty(h, f) == IsEmpty(h) /\ IsEmpty(f)

\* main.py:153: the guard of the early return
EitherEmpty(h, f) == IsEmpty(h) \/ IsEmpty(f)

\* main.py:159-178: the frame merge_datasets returns for two non-empty frames
Combine(h, f, build) ==
    LET concat == ToDatetime(h).rows \o ToDatetime(f).rows
        deduped == DropDuplicatesKeepLast(SortValuesDateLocation(concat))
    IN [dates |-> "datetime", rows |-> SortValuesDate(deduped, build)]

(***************************************************************************)
(* Idle values: what a specification leaves the other components at       *)
(***************************************************************************)
IdleLoad ==
    /\ weather_data = EmptyBag
    /\ records = <<>>
    /\ data_type = "historical"
    /\ outcomes = <<>>
    /\ faults = <<>>
    /\ snapshots = <<>>
    /\ results = <<>>

IdleMerge ==
    /\ df_historical = EmptyFrame
    /\ df_forecast = EmptyFrame
    /\ df_combined = None
    /\ merge_calls = 0
    /\ sort_build = "ties_kept"

IdleValidate ==
    /\ df = [n |-> 0, date |-> <<>>, temperature_2m_max |-> <<>>,
             temperature_2m_min |-> <<>>, soil_moisture |-> <<>>]
    /\ report = <<>>

IdleWrite ==
    /\ save_df = [columns |-> <<>>, rows |-> <<>>]
    /\ parent_dir = "directory"
    /\ output_file = <<>>
    /\ file_before = <<>>
    /\ save_faults = <<>>
    /\ save_outcome = <<>>
    /\ loaded = <<>>

IdleLocation ==
    /\ lat = 0
    /\ lon = 0
    /\ location = <<>>

IdleMain ==
    /\ pc = "not_started"
    /\ next_file = 1
    /\ input_files = <<>>
    /\ locations = {}
    /\ fk_present = TRUE
    /\ conn = "not_connected"
    /\ failed_step = <<>>
    /\ exit_code = <<>>
    /\ original = <<>>
    /\ first_run = <<>>

IdleReport ==
    /\ report_pc = "not_started"
    /\ report_next = 1
    /\ sections = <<>>
    /\ report_failed = <<>>
    /\ report_conn = "not_connected"
    /\ report_exit = <<>>

IdleFetch ==
    /\ fetch_params = [present |-> {}, latitude |-> 0, longitude |-> 0]
    /\ api_requests = 0
    /\ fetch_outcome = <<>>

IdlePipeline ==
    /\ run_flags = [include_historical |-> TRUE, include_forecast |-> TRUE,
                    create_combined |-> TRUE]
    /\ requested = <<>>
    /\ pipeline_pc = "not_started"
    /\ to_process = <<>>
    /\ processed = 0
    /\ pipeline_results = <<>>
    /\ pipeline_log = <<>>
    /\ pipeline_outcome = <<>>

(***************************************************************************)
(* Batch loader: a caller loading the same records twice in succession     *)
(*                                                                         *)
(* The store of Init is any store with unique natural keys and the         *)
(* arguments are any records and data_type, so what holds after the first  *)
(* call holds after every call of any sequence of calls.                   *)
(***************************************************************************)
\* Stores the loader can have left behind: the unique constraint of the
\* schema holds in them.  The loader never reads the measurements of a
\* stored row, so the rows stored beforehand all carry the measurement 99,
\* which the records of a call can repeat (value 99) or contradict (10).
InitStores ==
    {SetToBag(S) : S \in {T \in SUBSET {r \in Row : r.value = 99} :
                            /\ Cardinality(T) <= MaxRows
                            /\ \A a, b \in T : RowKey(a) = RowKey(b) => a = b}}

InitLoad ==
    /\ weather_data \in InitStores
    /\ records \in Batches
    /\ data_type \in DataTypes
    /\ outcomes = <<>>
    /\ faults = <<>>
    /\ snapshots = <<>>
    /\ results = <<>>
    /\ IdleMerge
    /\ IdleValidate
    /\ IdleWrite
    /\ IdleLocation
    /\ IdleMain
    /\ IdleReport
    /\ IdleFetch
    /\ IdlePipeline

\* Faulty variant: the call returns the number of rows it added.
RowsAdded(before, after) == Some(BagCardinality(after) - BagCardinality(before))

\* lines 143 and 183-190: a bare `return`, and the end of the function
\* without a return statement; the value of the call is None either way
ReturnValue(before, after) == None

\* line 184: the count in the message logged after the commit
InsertedCount(insert_data) == Len(insert_data)

\* Faulty variant: conn.commit() in the except clause.
KeepChanges(before, changed) == changed

\* line 187: conn.rollback() discards what the statements of the open
\* transaction changed
Rollback(before, changed) == before

\* insert_weather_data(conn, recs, dtype), lines 132-190; records and
\* data_type keep the arguments of the call.
\* fault: the store raises psycopg2.Error (connection lost, constraint
\* violated, ...) somewhere between the first statement and the commit.
insert_weather_data(recs, dtype, fault) ==
    /\ records' = recs
    /\ data_type' = dtype
    /\ snapshots' = Append(snapshots, weather_data)
    /\ faults' = Append(faults, fault)
    /\ IF recs = <<>>
       THEN /\ outcomes' = Append(outcomes, "no_records")    \* lines 141-143
            /\ weather_data' = weather_data
            /\ results' = Append(results,
                   [returned |-> ReturnValue(weather_data, weather_data),
                    logged |-> None])
       ELSE LET insert_data == PrepareInsertData(recs, dtype)
                table == ExecuteBatch(weather_data, insert_data)
            IN IF ~fault
               THEN /\ weather_data' = table
                    /\ outcomes' = Append(outcomes, "committed")  \* commit
                    /\ results' = Append(results,
                           [returned |-> ReturnValue(weather_data, table),
                            logged |-> Some(InsertedCount(insert_data))])
               ELSE /\ weather_data' = Rollback(weather_data, table)
                    /\ outcomes' = Append(outcomes, "raised")     \* raise
                    /\ results' = Append(results,
                           [returned |-> None, logged |-> None])
    /\ UNCHANGED <<mergeVars, validateVars, writerVars, locationVars,
                    reportVars, fetchVars, pipelineVars>>

FirstLoad ==
    /\ Len(outcomes) = 0
    /\ \E fault \in BOOLEAN : insert_weather_data(records, data_type, fault)
    /\ UNCHANGED mainVars

\* an exception of the first call ends the caller (main, lines 284-286)
SecondLoad ==
    /\ Len(outcomes) = 1
    /\ outcomes[1] # "raised"
    /\ \E fault \in BOOLEAN : insert_weather_data(records, data_type, fault)
    /\ UNCHANGED mainVars

NextLoad == FirstLoad \/ SecondLoad

Spec == InitLoad /\ [][NextLoad]_vars

(***************************************************************************)
(* Batch loader: properties                                                *)
(***************************************************************************)
Last(seq) == seq[Len(seq)]

\* rows of a table under one natural key, with their multiplicities
RowsUnder(table, k) ==
    [r \in {x \in BagToSet(table) :
              <<x.location_id, x.date, x.data_type>> = k} |-> table[r]]

RowCount(table, k) ==
    LET rs == RowsUnder(table, k)
        RECURSIVE Sum(_)
        Sum(S) == IF S = {} THEN 0
                  ELSE LET r == CHOOSE x \in S : TRUE
                       IN rs[r] + Sum(S \ {r})
    IN Sum(DOMAIN rs)

StoredKeys(table) ==
    {<<x.location_id, x.date, x.data_type>> : x \in BagToSet(table)}

\* the records of the call that name a registered location, with the key
\* each would be stored under
KnownIndexes == {i \in DOMAIN records : records[i].location \in DOMAIN LOCATIONS}

RecordKey(i) == <<LOCATIONS[records[i].location], records[i].date, data_type>>

\* C1: starting from a store with at most one row per natural key
\* (location_id, date, data_type), every store the load calls reach holds
\* at most one weather_data row per natural key.
C1_OneRowPerKey == \A k \in AllKeys : RowCount(weather_data, k) <= 1

\* a committed call that added a row and met a key that was stored already
C1_Witness ==
    /\ outcomes # <<>>
    /\ Last(outcomes) = "committed"
    /\ weather_data # Last(snapshots)
    /\ \E i \in KnownIndexes : RecordKey(i) \in StoredKeys(Last(snapshots))

\* C2: of two calls in succession with the same records and data_type, the
\* second leaves the store as the first (which returned) left it: the same
\* rows, hence the same row count.
C2_SecondLoadNoOp ==
    (Len(outcomes) = 2 /\ outcomes[1] # "raised") =>
        /\ weather_data = snapshots[2]
        /\ BagCardinality(weather_data) = BagCardinality(snapshots[2])

\* both calls committed and the first one added rows
C2_Witness ==
    /\ outcomes = <<"committed", "committed">>
    /\ snapshots[2] # snapshots[1]
    /\ BagCardinality(weather_data) > BagCardinality(snapshots[1])

\* C3: a natural key that has a stored row when a call starts has the same
\* row, with the same values, when the call has ended.
C3_ExistingRowKept ==
    outcomes # <<>> =>
        \A k \in StoredKeys(Last(snapshots)) :
            RowsUnder(weather_data, k) = RowsUnder(Last(snapshots), k)

\* a committed call whose records carried another value for a stored key
C3_Witness ==
    /\ outcomes # <<>>
    /\ Last(outcomes) = "committed"
    /\ \E i \in KnownIndexes :
          \E r \in BagToSet(Last(snapshots)) :
              /\ <<r.location_id, r.date, r.data_type>> = RecordKey(i)
              /\ r.value # records[i].value
              /\ r \in BagToSet(weather_data)

\* C4: a call whose records are not empty and during which the store does
\* not fail commits, whatever locations the records name; afterwards the
\* stored keys are those stored before and those of the records with a
\* registered location, and a key stored by the call carries the values of
\* the first record of the list that has it.
C4_UnknownSkipped ==
    (outcomes # <<>> /\ ~Last(faults) /\ records # <<>>) =>
        /\ Last(outcomes) = "committed"
        /\ StoredKeys(weather_data) =
               StoredKeys(Last(snapshots)) \cup {RecordKey(i) : i \in KnownIndexes}
        /\ \A i \in KnownIndexes :
              (/\ RecordKey(i) \notin StoredKeys(Last(snapshots))
               /\ \A j \in KnownIndexes : j < i => RecordKey(j) # RecordKey(i))
              => \E r \in BagToSet(weather_data) :
                    /\ <<r.location_id, r.date, r.data_type>> = RecordKey(i)
                    /\ r.value = records[i].value

\* a committed call with an unregistered record ahead of a registered one
\* whose key was not stored
C4_Witness ==
    /\ outcomes # <<>>
    /\ Last(outcomes) = "committed"
    /\ \E i, j \in DOMAIN records :
          /\ i < j
          /\ records[i].location \notin DOMAIN LOCATIONS
          /\ j \in KnownIndexes
          /\ RecordKey(j) \notin StoredKeys(Last(snapshots))
          /\ RecordKey(j) \in StoredKeys(weather_data)

\* C18 as stated: a call that returns returns the number of rows it added
\* to the store.
C18_AsStated ==
    (outcomes # <<>> /\ Last(outcomes) # "raised") =>
        Last(results).returned =
            <<BagCardinality(weather_data) - BagCardinality(Last(snapshots))>>

\* C18, amended: a call that returns returns None; the count it logs after
\* the commit is the number of records that name a registered location,
\* which is never less than the number of rows the call added.
C18_ReturnsNone ==
    (outcomes # <<>> /\ Last(outcomes) # "raised") =>
        /\ Last(results).returned = None
        /\ Last(outcomes) = "committed" =>
              /\ Last(results).logged = <<Cardinality(KnownIndexes)>>
              /\ Cardinality(KnownIndexes) >=
                     BagCardinality(weather_data) - BagCardinality(Last(snapshots))

\* a committed call that logged two records and added one row
C18_Witness ==
    /\ outcomes # <<>>
    /\ Last(outcomes) = "committed"
    /\ Last(results).logged = <<2>>
    /\ BagCardinality(weather_data) - BagCardinality(Last(snapshots)) = 1
    /\ Last(results).returned = None

(***************************************************************************)
(* Record merger: a caller that merges two frames and then merges the      *)
(* result with itself                                                      *)
(***************************************************************************)
InitMerge ==
    /\ df_historical \in [dates : DateKinds, rows : FrameRows(MaxHistorical)]
    /\ df_forecast \in [dates : DateKinds, rows : FrameRows(MaxForecast)]
    /\ df_combined = None
    /\ merge_calls = 0
    /\ sort_build \in SortBuilds
    /\ IdleLoad
    /\ IdleValidate
    /\ IdleWrite
    /\ IdleLocation
    /\ IdleMain
    /\ IdleReport
    /\ IdleFetch
    /\ IdlePipeline

\* WeatherDataPipeline.merge_datasets(location, h, f), main.py:138-182.
\* The frames handed in are the caller's own objects: the conversion of
\* their dates is visible to the caller afterwards.
merge_datasets(h, f) ==
    /\ IF EitherEmpty(h, f)
       THEN /\ df_combined' = None                           \* line 155
            /\ df_historical' = h
            /\ df_forecast' = f
       ELSE /\ df_historical' = ToDatetime(h)                \* line 160
            /\ df_forecast' = ToDatetime(f)                  \* line 161
            /\ df_combined' = Some(Combine(h, f, sort_build))
    /\ merge_calls' = merge_calls + 1
    /\ UNCHANGED sort_build
    /\ UNCHANGED <<loaderVars, validateVars, writerVars, locationVars, mainVars,
                    reportVars, fetchVars, pipelineVars>>

\* the first call, on the two frames of Init
Merge ==
    /\ merge_calls = 0
    /\ merge_datasets(df_historical, df_forecast)

\* the second call: the frame the first call returned, as both arguments
Remerge ==
    /\ merge_calls = 1
    /\ df_combined # None
    /\ merge_datasets(df_combined[1], df_combined[1])

NextMerge == Merge \/ Remerge

SpecMerge == InitMerge /\ [][NextMerge]_vars

(***************************************************************************)
(* Record merger: properties                                               *)
(***************************************************************************)
\* the first call has returned and both of its frames had rows
MergedNonEmpty ==
    /\ merge_calls = 1
    /\ df_historical.rows # <<>>
    /\ df_forecast.rows # <<>>

RowsOfKey(rows, k) == {i \in DOMAIN rows : <<rows[i].day, rows[i].location>> = k}

KeysOf(rows) == {<<rows[i].day, rows[i].location>> : i \in DOMAIN rows}

\* C5: when both frames have rows, every (date, location) that occurs in
\* both has exactly one row in the frame merge_datasets returns, and that
\* row is the forecast frame's (its last one for the key).
C5_ForecastWins ==
    MergedNonEmpty =>
        /\ df_combined # None
        /\ \A k \in KeysOf(df_historical.rows) \cap KeysOf(df_forecast.rows) :
              LET out == df_combined[1].rows
                  fr == df_forecast.rows
                  last == CHOOSE j \in RowsOfKey(fr, k) :
                              \A j2 \in RowsOfKey(fr, k) : j2 <= j
              IN /\ Cardinality(RowsOfKey(out, k)) = 1
                 /\ \A i \in RowsOfKey(out, k) : out[i] = fr[last]

\* a collision in which the two frames disagree on the measurement, and
\* the merged row carries the forecast's
C5_Witness ==
    /\ MergedNonEmpty
    /\ df_combined # None
    /\ \E i \in DOMAIN df_historical.rows, j \in DOMAIN df_forecast.rows :
          /\ df_historical.rows[i].day = df_forecast.rows[j].day
          /\ df_historical.rows[i].location = df_forecast.rows[j].location
          /\ df_historical.rows[i].temp # df_forecast.rows[j].temp
          /\ \E m \in DOMAIN df_combined[1].rows :
                df_combined[1].rows[m] = df_forecast.rows[j]

\* C6: merge_datasets returns None whenever one of its frames has no rows,
\* also when the other one has rows.
C6_NullOnEmpty ==
    (merge_calls = 1 /\ (df_historical.rows = <<>> \/ df_forecast.rows = <<>>))
        => df_combined = None

C6_Witness ==
    /\ merge_calls = 1
    /\ df_historical.rows = <<>>
    /\ df_forecast.rows # <<>>
    /\ df_combined = None

\* C7: the frame merge_datasets returns is in ascending order of date: of
\* two consecutive rows the first one's date is not after the second one's.
C7_SortedByDate ==
    (merge_calls >= 1 /\ df_combined # None) =>
        \A i \in 1..(Len(df_combined[1].rows) - 1) :
            df_combined[1].rows[i].day <= df_combined[1].rows[i + 1].day

\* the historical frame came in with a later day ahead of an earlier one
C7_Witness ==
    /\ merge_calls = 1
    /\ df_combined # None
    /\ \E i, j \in DOMAIN df_historical.rows :
          i < j /\ df_historical.rows[i].day > df_historical.rows[j].day
    /\ \E i, j \in DOMAIN df_combined[1].rows :
          df_combined[1].rows[i].day < df_combined[1].rows[j].day

\* C8: merging the returned frame M with itself returns a frame identical
\* to M: the same rows in the same order, with the same date column.  After
\* the second call df_historical is M, the object handed in.
C8_Idempotent ==
    merge_calls = 2 =>
        /\ df_combined # None
        /\ df_combined[1] = df_historical

\* M holds two rows of one day, which the last sort may put either way round
C8_Witness ==
    /\ merge_calls = 2
    /\ df_combined # None
    /\ sort_build = "ties_reversed"
    /\ \E i, j \in DOMAIN df_combined[1].rows :
          /\ i # j
          /\ df_combined[1].rows[i].day = df_combined[1].rows[j].day

\* C27: when both frames have rows, the returned frame has exactly one row
\* for every (date, location) of a row of either frame, no row of any
\* other key, and each of its rows is a row of one of the two frames (same
\* day, location and measurements).
C27_OneRowPerInputKey ==
    MergedNonEmpty =>
        /\ df_combined # None
        /\ LET out == df_combined[1].rows
           IN /\ KeysOf(out) = KeysOf(df_historical.rows)
                                   \cup KeysOf(df_forecast.rows)
              /\ \A k \in KeysOf(out) : Cardinality(RowsOfKey(out, k)) = 1
              /\ \A i \in DOMAIN out :
                    \/ \E j \in DOMAIN df_historical.rows :
                          df_historical.rows[j] = out[i]
                    \/ \E j \in DOMAIN df_forecast.rows :
                          df_forecast.rows[j] = out[i]

\* the historical frame holds two different rows of one key, the forecast
\* frame a row of another key: two rows come back
C27_Witness ==
    /\ MergedNonEmpty
    /\ df_combined # None
    /\ Len(df_historical.rows) = 2
    /\ KeysOf(df_historical.rows) = {<<1, "iowa_center">>}
    /\ df_historical.rows[1] # df_historical.rows[2]
    /\ KeysOf(df_forecast.rows) = {<<2, "iowa_center">>}
    /\ Len(df_combined[1].rows) = 2

(***************************************************************************)
(* Quality validator: data                                                 *)
(***************************************************************************)
\* A frame to validate is described by what validate_data_quality reads of
\* it: its number of rows n and, for each column it has, the number of
\* missing cells and the set of values in the other cells.  A column the
\* frame does not have is None.

\* cells of a 'date' column: day 1, or text that pd.to_datetime rejects
UnparsableDate == 0
DateCells == {UnparsableDate, 1}

\* cells of the temperature columns, in degrees Celsius: the two limits of
\* utils.py:226 and their outer neighbours
TempCells == {-51, -50, 60, 61}

\* cells of any other column
OtherCells == {5}

ColumnNames == <<"date", "temperature_2m_max", "temperature_2m_min",
                 "soil_moisture">>

\* the columns n rows can have, over a set of cell values
Columns(n, cells) ==
    {c \in [nulls : 0..MaxNulls, vals : SUBSET cells] :
        /\ c.nulls <= n
        /\ Cardinality(c.vals) <= MaxDistinct
        /\ Cardinality(c.vals) <= n - c.nulls
        /\ (c.vals = {}) <=> (c.nulls = n)}

Optional(S) == {None} \cup {Some(c) : c \in S}

\* the 'date' column is text (as in the tests) or datetime64 (as the API
\* client builds it); a datetime64 column holds no unparsable text
DateColumns(n) ==
    {c \in [kind : DateKinds, nulls : 0..MaxNulls, vals : SUBSET DateCells] :
        /\ [nulls |-> c.nulls, vals |-> c.vals] \in Columns(n, DateCells)
        /\ c.kind = "datetime" => UnparsableDate \notin c.vals}

ValidationFrames ==
    UNION {[n : {n},
            date : Optional(DateColumns(n)),
            temperature_2m_max : Optional(Columns(n, TempCells)),
            temperature_2m_min : Optional(Columns(n, TempCells)),
            soil_moisture : Optional(Columns(n, OtherCells))]
           : n \in 0..MaxRecords}

\* Faulty variant: only a frame without columns counts as empty.
HasNoColumns(d) ==
    \A i \in DOMAIN ColumnNames : d[ColumnNames[i]] = None

\* df.empty: no rows, or no columns
FrameIsEmpty(d) ==
    \/ d.n = 0
    \/ \A i \in DOMAIN ColumnNames : d[ColumnNames[i]] = None

(***************************************************************************)
(* validate_data_quality, utils.py:168-238                                 *)
(***************************************************************************)
\* lines 196-203: pd.to_datetime raises on text it cannot parse, and
\* strftime raises on the NaT that min() of an all-missing column yields
DateCheckRaises(d) ==
    /\ d.date # None
    /\ \/ UnparsableDate \in d.date[1].vals
       \/ d.date[1].vals = {}

\* the class of the error of the date check: pandas' DateParseError and the
\* error of NaT.strftime are both ValueError
DateError == "ValueError"

\* classes derived from Exception that the calls of this module raise
ExceptionClasses == {"ValueError", "TypeError", "OSError", "PermissionError"}

\* Faulty variant: `except TypeError`.
ExceptTypeError(error) == error = "TypeError"

\* `except Exception` (utils.py:72, 202)
ExceptException(error) == error \in ExceptionClasses

\* the issue lines 202-203 append
DateIssues(d) == IF DateCheckRaises(d) THEN <<"date: error en fechas">> ELSE <<>>

\* lines 198-201
DateRange(d) ==
    IF d.date = None \/ DateCheckRaises(d) THEN None
    ELSE LET ds == d.date[1].vals
         IN Some([start |-> CHOOSE x \in ds : \A y \in ds : x <= y,
                  end |-> CHOOSE x \in ds : \A y \in ds : y <= x])

\* line 197: the frame's date column after the call; the assignment does
\* not happen when pd.to_datetime raises
ConvertDates(d) ==
    IF d.date = None \/ UnparsableDate \in d.date[1].vals THEN d
    ELSE [d EXCEPT !.date = Some([d.date[1] EXCEPT !.kind = "datetime"])]

\* line 207: df[col].isnull().sum()
NullCount(d, col) == IF d[col] = None THEN 0 ELSE d[col][1].nulls

\* Faulty variant: a column with exactly 10% missing is flagged too.
AtLeastTenPercent(d, col) == NullCount(d, col) * 100 >= 10 * d.n

\* line 215: null_pct > 10, with null_pct = null_count / len(df) * 100.
\* The quotient k / (10 * k) is the double nearest to 0.1 and its product
\* with 100 is the double 10.0, so the comparison is the exact one.
TooManyMissing(d, col) == NullCount(d, col) * 100 > 10 * d.n

\* line 212: round(null_pct, 2), in hundredths of a percent.  A tie between
\* two hundredths needs a row count that is a multiple of 32.
Percentage(d, col) == (NullCount(d, col) * 20000 + d.n) \div (2 * d.n)

\* lines 206-218: the issues of the loop over df.columns, in column order
RECURSIVE MissingIssues(_, _)
MissingIssues(d, i) ==
    IF i > Len(ColumnNames) THEN <<>>
    ELSE (IF NullCount(d, ColumnNames[i]) > 0 /\ TooManyMissing(d, ColumnNames[i])
          THEN <<ColumnNames[i] \o ": datos faltantes">>
          ELSE <<>>)
         \o MissingIssues(d, i + 1)

\* lines 208-213: report["missing_data"], an entry under each column that
\* has missing cells
MissingData(d) ==
    [col \in {ColumnNames[i] : i \in {j \in DOMAIN ColumnNames :
                                        NullCount(d, ColumnNames[j]) > 0}}
        |-> [count |-> NullCount(d, col), percentage |-> Percentage(d, col)]]

\* Faulty variant: .all() in place of .any(); one value in range clears the
\* column.
OutOfRangeAll(vals) == \A v \in vals : v < -50 \/ v > 60

\* Faulty variant: the limits themselves count as out of range.
OutOfRangeInclusive(vals) == \E v \in vals : v <= -50 \/ v >= 60

\* line 226: (values < -50).any() or (values > 60).any()
OutOfRange(vals) == \E v \in vals : v < -50 \/ v > 60

TempCols == <<"temperature_2m_max", "temperature_2m_min">>

\* lines 221-229
RECURSIVE RangeIssues(_, _)
RangeIssues(d, i) ==
    IF i > Len(TempCols) THEN <<>>
    ELSE (IF /\ d[TempCols[i]] # None
             /\ d[TempCols[i]][1].vals # {}          \* values.empty
             /\ OutOfRange(d[TempCols[i]][1].vals)
          THEN <<TempCols[i] \o ": valores fuera de rango">>
          ELSE <<>>)
         \o RangeIssues(d, i + 1)

\* the dict validate_data_quality(df, location_name) returns
QualityReport(d, location_name) ==
    IF FrameIsEmpty(d)
    THEN [status |-> "error", message |-> "DataFrame vacio"]   \* line 181
                                          \* (the message, in ASCII)
    ELSE LET data_issues == DateIssues(d) \o MissingIssues(d, 1)
                                          \o RangeIssues(d, 1)
         IN [location |-> location_name,
             total_records |-> d.n,
             date_range |-> DateRange(d),
             missing_data |-> MissingData(d),
             data_issues |-> data_issues,
             status |-> IF data_issues # <<>> THEN "warning" ELSE "ok"]

(***************************************************************************)
(* Quality validator: a caller that validates one frame                    *)
(***************************************************************************)
InitValidate ==
    /\ df \in ValidationFrames
    /\ report = None
    /\ IdleLoad
    /\ IdleMerge
    /\ IdleWrite
    /\ IdleLocation
    /\ IdleMain
    /\ IdleReport
    /\ IdleFetch
    /\ IdlePipeline

\* report' holds the dict returned, or [raised |-> class] when an exception
\* leaves the call.
validate_data_quality ==
    /\ report = None
    /\ report' = IF /\ ~FrameIsEmpty(df)
                    /\ DateCheckRaises(df)
                    /\ ~ExceptException(DateError)
                 THEN Some([raised |-> DateError])
                 ELSE Some(QualityReport(df, "iowa_center"))
    /\ df' = IF FrameIsEmpty(df) THEN df ELSE ConvertDates(df)
    /\ UNCHANGED <<loaderVars, mergeVars, writerVars, locationVars, mainVars,
                    reportVars, fetchVars, pipelineVars>>

NextValidate == validate_data_quality

SpecValidate == InitValidate /\ [][NextValidate]_vars

(***************************************************************************)
(* Quality validator: properties                                           *)
(***************************************************************************)
PresentColumns == {ColumnNames[i] : i \in {j \in DOMAIN ColumnNames :
                                             df[ColumnNames[j]] # None}}

\* the frame has rows and columns, no cell of it is missing, and every
\* temperature in it lies in [-50, 60]
CompleteAndInRange ==
    /\ df.n > 0
    /\ PresentColumns # {}
    /\ \A col \in PresentColumns : df[col][1].nulls = 0
    /\ \A col \in PresentColumns \cap {"temperature_2m_max", "temperature_2m_min"} :
          \A v \in df[col][1].vals : -50 <= v /\ v <= 60

\* C9: for a frame without rows (or without columns) the call returns the
\* error report and nothing else: no record count, date range, missing
\* data or issue list is part of it.
C9_EmptyIsError ==
    (report # None /\ (df.n = 0 \/ PresentColumns = {})) =>
        report[1] = [status |-> "error", message |-> "DataFrame vacio"]

\* an empty frame that has columns has been validated
C9_Witness ==
    /\ report # None
    /\ df.n = 0
    /\ df.date # None
    /\ df.temperature_2m_max # None
    /\ report[1].status = "error"

\* C10 as stated: every non-empty frame without missing values and with
\* temperatures in [-50, 60] is reported with status ok.
C10_AsStated ==
    (report # None /\ CompleteAndInRange) => report[1].status = "ok"

\* C10, amended: every non-empty frame without missing values, with
\* temperatures in [-50, 60] and with a date column (if it has one) that
\* pd.to_datetime can parse is reported with status ok and no issue.
C10_OkWhenDatesParse ==
    (/\ report # None
     /\ CompleteAndInRange
     /\ (df.date # None => UnparsableDate \notin df.date[1].vals)) =>
        /\ report[1].status = "ok"
        /\ report[1].data_issues = <<>>

\* a validated frame with text dates and temperatures on both limits
C10_Witness ==
    /\ report # None
    /\ CompleteAndInRange
    /\ df.date # None
    /\ df.temperature_2m_max # None
    /\ df.temperature_2m_max[1].vals = {-50, 60}
    /\ df.temperature_2m_min # None
    /\ df.soil_moisture # None
    /\ report[1].status = "ok"

\* the entry of data_issues that lines 216-218 append for a column
MissingIssue(col) == col \o ": datos faltantes"

Issues == IF report = None \/ report[1].status = "error" THEN <<>>
          ELSE report[1].data_issues

HasIssue(text) == \E i \in DOMAIN Issues : Issues[i] = text

RangeIssue(col) == col \o ": valores fuera de rango"

\* C12: for a frame with rows, data_issues holds the range issue of a
\* temperature column the frame has exactly when one of the column's
\* non-missing values is below -50 or above 60, whatever the other columns
\* hold; -50 and 60 themselves raise no issue; a range issue makes the
\* status warning.
C12_TemperatureRange ==
    (report # None /\ report[1].status # "error") =>
        \A col \in PresentColumns \cap {"temperature_2m_max", "temperature_2m_min"} :
            LET outside == {v \in df[col][1].vals : v < -50 \/ v > 60}
            IN /\ HasIssue(RangeIssue(col)) <=> outside # {}
               /\ outside # {} => report[1].status = "warning"

\* one value above the upper limit next to one on it is flagged, while a
\* column holding just the two limits (and a missing cell) is not
C12_Witness ==
    /\ report # None
    /\ df.temperature_2m_max # None
    /\ df.temperature_2m_max[1].vals = {60, 61}
    /\ df.temperature_2m_min # None
    /\ df.temperature_2m_min[1].vals = {-50, 60}
    /\ df.temperature_2m_min[1].nulls = 1
    /\ HasIssue(RangeIssue("temperature_2m_max"))
    /\ ~HasIssue(RangeIssue("temperature_2m_min"))
    /\ report[1].status = "warning"

\* C13: the call never raises and returns a report for every frame; its
\* status is error exactly for an empty frame; for a frame with rows it is
\* warning when data_issues is not empty and ok when it is; a date column
\* that cannot be parsed puts the date issue first in data_issues, and
\* the missing-data and range checks behind it still run.
C13_StatusFromIssues ==
    report # None =>
        /\ "raised" \notin DOMAIN report[1]
        /\ report[1].status \in {"ok", "warning", "error"}
        /\ report[1].status = "error" <=> (df.n = 0 \/ PresentColumns = {})
        /\ report[1].status # "error" =>
              /\ report[1].status = "warning" <=> report[1].data_issues # <<>>
              /\ report[1].status = "ok" <=> report[1].data_issues = <<>>
              /\ report[1].total_records = df.n
              /\ (df.date # None /\ UnparsableDate \in df.date[1].vals) =>
                    /\ report[1].data_issues[1] = "date: error en fechas"
                    /\ report[1].date_range = None
                    /\ DOMAIN report[1].missing_data =
                           {col \in PresentColumns : df[col][1].nulls > 0}
                    /\ \A col \in PresentColumns :
                          df[col][1].nulls * 100 > 10 * df.n
                              => HasIssue(MissingIssue(col))
                    /\ \A col \in PresentColumns
                                  \cap {"temperature_2m_max", "temperature_2m_min"} :
                          (\E v \in df[col][1].vals : v < -50 \/ v > 60)
                              => HasIssue(RangeIssue(col))

\* a frame whose dates cannot be parsed, with a column missing too many
\* cells and a temperature out of range: three issues, status warning
C13_Witness ==
    /\ report # None
    /\ df.n = 2
    /\ df.date # None
    /\ UnparsableDate \in df.date[1].vals
    /\ df.soil_moisture # None
    /\ df.soil_moisture[1].nulls = 1
    /\ df.temperature_2m_min # None
    /\ -51 \in df.temperature_2m_min[1].vals
    /\ Len(report[1].data_issues) = 3
    /\ report[1].status = "warning"

(***************************************************************************)
(* Persistence writer: data                                                *)
(***************************************************************************)
\* A frame to save has the columns 'date' and 'temperature_2m_max', or no
\* column at all; a temperature is None (NaN) or a number.
SaveColumns == <<"date", "temperature_2m_max">>

SaveRow == [date : MergeDays, temperature_2m_max : Optional({10})]

SaveFrames ==
    {[columns |-> SaveColumns, rows |-> rows] :
        rows \in UNION {[1..n -> SaveRow] : n \in 0..MaxSaved}}
    \cup {[columns |-> <<>>, rows |-> [i \in 1..n |-> <<>>]] : n \in 0..MaxSaved}

\* Faulty variant: `and` between the two axes.
NoRowsAndNoColumns(frame) == frame.rows = <<>> /\ frame.columns = <<>>

\* df.empty (line 48): one of the two axes has length 0
SaveFrameIsEmpty(frame) == frame.rows = <<>> \/ frame.columns = <<>>

\* One line of the file: df.to_json(orient="records", lines=True,
\* date_format="iso") writes a row as an object keyed by column, a date as
\* ISO text and NaN as null.
ToJsonLine(row) ==
    [text |-> "object",
     date |-> [json |-> "string", iso |-> row.date],
     temperature_2m_max |->
         IF row.temperature_2m_max = None
         THEN [json |-> "null", value |-> 0]
         ELSE [json |-> "number", value |-> row.temperature_2m_max[1]]]

\* Faulty variant: lines=False, the records as one array on one line.
ToJsonArray(frame) ==
    <<[text |-> "array",
       items |-> [i \in DOMAIN frame.rows |-> ToJsonLine(frame.rows[i])]]>>

\* lines 53-59: the lines df.to_json writes with the defaults of
\* save_to_json (orient="records", lines=True), which every caller uses
ToJson(frame) == [i \in DOMAIN frame.rows |-> ToJsonLine(frame.rows[i])]

\* pd.read_json: the row of one object; the 'date' column is converted back
FromJsonObject(object) ==
    [date |-> object.date.iso,
     temperature_2m_max |->
         IF object.temperature_2m_max.json = "null" THEN None
         ELSE Some(object.temperature_2m_max.value)]

\* a file some earlier run left at output_path: one record, as lines or as
\* an array
OldFiles ==
    LET old == [date |-> 1, temperature_2m_max |-> None]
    IN {<<ToJsonLine(old)>>, <<[text |-> "array", items |-> <<ToJsonLine(old)>>]>>}

\* what the file system can hold at output_path.parent and output_path
\* when save_to_json is called
InitFileSystems ==
    {fs \in [parent : {"absent", "directory", "file"},
             file : {None} \cup {Some(f) : f \in OldFiles \cup {<<>>}}] :
        fs.parent # "directory" => fs.file = None}

\* what the file system can do to output_path.parent.mkdir(parents=True,
\* exist_ok=True) when the directory has to be created
MkdirFaults == {"none", "PermissionError", "OSError"}

\* what the file system can do to df.to_json: refuse to open the file, fail
\* after some of the lines, or report no error and leave no data behind
ToJsonFaults == {"none", "PermissionError", "OSError", "zero_bytes", "vanished"}

\* Faulty variant: the `except Exception` clause is missing.
ExceptPermissionError(error) == error = "PermissionError"

\* lines 69-74: except PermissionError / except Exception
SaveExcept(error) == error = "PermissionError" \/ ExceptException(error)

\* line 45: mkdir(parents=True, exist_ok=True) raises FileExistsError (an
\* OSError) when the path is a file
MkdirError(parent, fault) ==
    IF parent = "file" THEN "OSError"
    ELSE IF parent = "absent" THEN fault
    ELSE "none"

\* Faulty variant: output_path.exists() alone.
Exists(file) == file # None

\* line 62: output_path.exists() and output_path.stat().st_size > 0
ExistsWithData(file) == file # None /\ file[1] # <<>>

(***************************************************************************)
(* save_to_json, utils.py:23-74, and load_json_data, utils.py:263-296      *)
(***************************************************************************)
Returned(value) == [returned |-> Some(value), raised |-> None]

Raised(error) == [returned |-> None, raised |-> Some(error)]

\* what an exception inside the try block of save_to_json ends in
SaveFailure(error) == IF SaveExcept(error) THEN Returned(FALSE) ELSE Raised(error)

InitWrite ==
    /\ save_df \in SaveFrames
    /\ \E fs \in InitFileSystems :
          /\ parent_dir = fs.parent
          /\ output_file = fs.file
          /\ file_before = fs.file
    /\ save_faults = None
    /\ save_outcome = None
    /\ loaded = None
    /\ IdleLoad
    /\ IdleMerge
    /\ IdleValidate
    /\ IdleLocation
    /\ IdleMain
    /\ IdleReport
    /\ IdleFetch
    /\ IdlePipeline

\* DataUtils.save_to_json(df, output_path).  mkdir_fault and to_json_fault
\* are what the file system does to the two calls; written is the number
\* of lines that reached the file before a failing write stopped.
save_to_json(mkdir_fault, to_json_fault, written) ==
    LET mkdir_error == MkdirError(parent_dir, mkdir_fault)
    IN /\ save_outcome = None
       /\ file_before' = output_file
       /\ IF mkdir_error # "none"
          THEN /\ save_outcome' = Some(SaveFailure(mkdir_error))
               /\ save_faults' = Some([mkdir |-> mkdir_error, to_json |-> "not_called"])
               /\ UNCHANGED <<parent_dir, output_file>>
          ELSE /\ parent_dir' = "directory"                        \* line 45
               /\ IF SaveFrameIsEmpty(save_df)
                  THEN /\ save_outcome' = Some(Returned(FALSE))    \* line 50
                       /\ save_faults' = Some([mkdir |-> "none", to_json |-> "not_called"])
                       /\ UNCHANGED output_file
                  ELSE /\ save_faults' = Some([mkdir |-> "none", to_json |-> to_json_fault])
                       /\ CASE to_json_fault = "PermissionError" ->
                                /\ save_outcome' = Some(SaveFailure("PermissionError"))
                                /\ UNCHANGED output_file
                            [] to_json_fault = "OSError" ->
                                /\ save_outcome' = Some(SaveFailure("OSError"))
                                /\ output_file' = Some(SubSeq(ToJson(save_df), 1, written))
                            [] OTHER ->
                                LET file == CASE to_json_fault = "none" -> Some(ToJson(save_df))
                                              [] to_json_fault = "zero_bytes" -> Some(<<>>)
                                              [] OTHER -> None
                                IN /\ output_file' = file
                                   /\ save_outcome' = Some(Returned(ExistsWithData(file)))
       /\ UNCHANGED <<save_df, loaded>>
       /\ UNCHANGED <<loaderVars, mergeVars, validateVars, locationVars, mainVars,
                       reportVars, fetchVars, pipelineVars>>

Save ==
    \E mkdir_fault \in MkdirFaults, to_json_fault \in ToJsonFaults,
       written \in 0..MaxSaved :
        /\ written < Len(save_df.rows) \/ written = 0
        /\ save_to_json(mkdir_fault, to_json_fault, written)

\* what DataUtils.load_json_data(file_path) can return.  Of a file without
\* a line pd.read_json makes an empty frame or raises ValueError, depending
\* on the pandas release; the exception is caught and None returned.
LoadJsonData(file) ==
    IF file = None THEN {None}                                    \* line 278
    ELSE IF file[1] = <<>>
    THEN {None, Some([columns |-> <<>>, rows |-> <<>>])}
    ELSE IF file[1][1].text = "array"                             \* line 284
    THEN {Some([columns |-> SaveColumns,
                rows |-> [i \in DOMAIN file[1][1].items |->
                             FromJsonObject(file[1][1].items[i])]])}
    ELSE {Some([columns |-> SaveColumns,
                rows |-> [i \in DOMAIN file[1] |-> FromJsonObject(file[1][i])]])}

\* the caller reads output_path back once save_to_json has returned
load_json_data ==
    /\ save_outcome # None
    /\ save_outcome[1].raised = None
    /\ loaded = None
    /\ \E result \in LoadJsonData(output_file) : loaded' = Some(result)
    /\ UNCHANGED <<save_df, parent_dir, output_file, file_before, save_faults,
                   save_outcome>>
    /\ UNCHANGED <<loaderVars, mergeVars, validateVars, locationVars, mainVars,
                    reportVars, fetchVars, pipelineVars>>

NextWrite == Save \/ load_json_data

SpecWrite == InitWrite /\ [][NextWrite]_vars

(***************************************************************************)
(* Persistence writer: properties                                          *)
(***************************************************************************)
SaveReturned(value) ==
    /\ save_outcome # None
    /\ save_outcome[1].returned = <<value>>

\* C14: save_to_json called with an empty frame (no rows, or no columns)
\* returns False and leaves the destination as it was: no file where there
\* was none, the same lines in a file that was there.
C14_EmptyWritesNothing ==
    (save_outcome # None /\ (save_df.rows = <<>> \/ save_df.columns = <<>>)) =>
        /\ SaveReturned(FALSE)
        /\ output_file = file_before

\* a frame with columns and no rows, a destination directory that had to
\* be created, and no file in it afterwards
C14_Witness ==
    /\ SaveReturned(FALSE)
    /\ save_df.rows = <<>>
    /\ save_df.columns # <<>>
    /\ save_faults[1].mkdir = "none"
    /\ parent_dir = "directory"
    /\ file_before = None
    /\ output_file = None

\* C15: when save_to_json has returned True for a frame with rows, the file
\* holds as many lines as the frame has rows, and load_json_data returns a
\* frame with that many rows.
C15_SameRecordCount ==
    SaveReturned(TRUE) =>
        /\ save_df.rows # <<>>
        /\ output_file # None
        /\ Len(output_file[1]) = Len(save_df.rows)
        /\ loaded # None =>
              /\ loaded[1] # None
              /\ Len(loaded[1][1].rows) = Len(save_df.rows)

\* two rows written over an older file of one record and read back, one
\* of them with a missing temperature
C15_Witness ==
    /\ SaveReturned(TRUE)
    /\ file_before # None
    /\ file_before # output_file
    /\ loaded # None
    /\ loaded[1] # None
    /\ Len(loaded[1][1].rows) = 2
    /\ loaded[1][1].rows[1].temperature_2m_max = None
    /\ loaded[1][1].rows = save_df.rows

\* C16: no exception leaves save_to_json; when making the directory or
\* writing the file fails, with PermissionError or with any other error,
\* the call returns False.
C16_NeverRaises ==
    save_outcome # None =>
        /\ save_outcome[1].raised = None
        /\ save_outcome[1].returned \in {<<TRUE>>, <<FALSE>>}
        /\ (\/ save_faults[1].mkdir # "none"
            \/ save_faults[1].to_json \in {"PermissionError", "OSError"})
               => save_outcome[1].returned = <<FALSE>>

\* a write that failed with an error other than PermissionError after the
\* first line, leaving a shorter file behind
C16_Witness ==
    /\ SaveReturned(FALSE)
    /\ save_faults[1].to_json = "OSError"
    /\ output_file # None
    /\ Len(output_file[1]) = 1
    /\ Len(save_df.rows) = 2

\* C26: when save_to_json has returned True the destination is a file that
\* holds data; and when df.to_json reported no error but left no file, or a
\* file of zero bytes, save_to_json returned False and raised nothing.
C26_VerifiedAfterWrite ==
    /\ SaveReturned(TRUE) =>
          /\ output_file # None
          /\ Len(output_file[1]) > 0
    /\ (save_outcome # None
           /\ save_faults[1].to_json \in {"zero_bytes", "vanished"}) =>
          /\ SaveReturned(FALSE)
          /\ save_outcome[1].raised = None
          /\ output_file \in {None, Some(<<>>)}

\* a frame with rows written over a file that held data; the write
\* reported no error and left zero bytes
C26_Witness ==
    /\ SaveReturned(FALSE)
    /\ save_faults[1].to_json = "zero_bytes"
    /\ save_df.rows # <<>>
    /\ file_before # None
    /\ file_before # Some(<<>>)
    /\ output_file = Some(<<>>)

(***************************************************************************)
(* Location registry: Location.__post_init__, config.py:11-23              *)
(***************************************************************************)
\* coordinates in degrees, around the limits the constructor compares with
Latitudes == {0} \cup UNION {{-90 + d, 90 + d} : d \in (-MaxOff)..MaxOff}

Longitudes == {0} \cup UNION {{-180 + d, 180 + d} : d \in (-MaxOff)..MaxOff}

\* Faulty variant: the limits themselves are rejected.
InsideLatitudes(x) == -90 < x /\ x < 90

\* line 20: -90 <= self.lat <= 90
ValidLatitude(x) == -90 <= x /\ x <= 90

\* line 22: -180 <= self.lon <= 180
ValidLongitude(x) == -180 <= x /\ x <= 180

InitLocation ==
    /\ lat \in Latitudes
    /\ lon \in Longitudes
    /\ location = None
    /\ IdleLoad
    /\ IdleMerge
    /\ IdleValidate
    /\ IdleWrite
    /\ IdleMain
    /\ IdleReport
    /\ IdleFetch
    /\ IdlePipeline

\* Location(name, lat, lon): the generated __init__ stores the fields and
\* calls __post_init__
Location(name) ==
    /\ location = None
    /\ location' =
          IF ~ValidLatitude(lat) THEN Some(Raised("ValueError"))       \* line 21
          ELSE IF ~ValidLongitude(lon) THEN Some(Raised("ValueError")) \* line 23
          ELSE Some(Returned([name |-> name, lat |-> lat, lon |-> lon]))
    /\ UNCHANGED <<lat, lon>>
    /\ UNCHANGED <<loaderVars, mergeVars, validateVars, writerVars, mainVars,
                    reportVars, fetchVars, pipelineVars>>

NextLocation == \E name \in MergeLocations : Location(name)

SpecLocation == InitLocation /\ [][NextLocation]_vars

\* C17: the construction returns the Location, holding the coordinates it
\* was given, for every lat in [-90, 90] and lon in [-180, 180], the limits
\* included; it raises ValueError when lat or lon lies outside its range.
C17_CoordinateRanges ==
    location # None =>
        IF (-90 <= lat /\ lat <= 90) /\ (-180 <= lon /\ lon <= 180)
        THEN /\ location[1].raised = None
             /\ location[1].returned # None
             /\ location[1].returned[1].lat = lat
             /\ location[1].returned[1].lon = lon
        ELSE /\ location[1].raised = <<"ValueError">>
             /\ location[1].returned = None

\* a Location on two of the limits
C17_Witness ==
    /\ location # None
    /\ lat = 90
    /\ lon = -180
    /\ location[1].returned # None
    /\ location[1].returned[1].lat = 90

(***************************************************************************)
(* Batch loader: one run of main(), load_data.py:241-289                   *)
(***************************************************************************)
\* lines 257-259 and 267-269: the four input files, in loading order
INPUT_FILES ==
    <<[data_type |-> "historical", location |-> "iowa_center"],
      [data_type |-> "historical", location |-> "illinois_center"],
      [data_type |-> "forecast", location |-> "iowa_center"],
      [data_type |-> "forecast", location |-> "illinois_center"]>>

\* an input file is not there, holds a line that is not JSON after its
\* records, or holds its records only
FileKinds == {"missing", "malformed", "valid"}

\* the records of input file k: one of a location the registry does not
\* know, then one of the file's location for every day
FileRecords(k) ==
    <<[location |-> "unknown_center", date |-> 1, value |-> 10]>>
    \o [d \in Days |-> [location |-> INPUT_FILES[k].location,
                        date |-> d,
                        value |-> IF INPUT_FILES[k].data_type = "historical"
                                  THEN 10 ELSE 99]]

\* the lines of input file k when it is there: its records one per line, an
\* empty line between them and the end, and in a malformed file a last line
\* that json.loads rejects
FileLines(k, kind) ==
    [i \in DOMAIN FileRecords(k) |-> [text |-> "json",
                                      value |-> Some(FileRecords(k)[i])]]
    \o <<[text |-> "blank", value |-> None]>>
    \o (IF kind = "malformed"
        THEN <<[text |-> "not_json", value |-> None]>>
        ELSE <<>>)

\* Faulty variant: `break` at the line that is not JSON; the records read
\* before it are returned.
RECURSIVE ParseLinesKeep(_, _)
ParseLinesKeep(lines, recs) ==
    IF lines = <<>> THEN recs
    ELSE LET line == Head(lines)
         IN IF line.text = "blank"
            THEN ParseLinesKeep(Tail(lines), recs)
            ELSE IF line.text = "not_json"
                 THEN recs
                 ELSE ParseLinesKeep(Tail(lines), Append(recs, line.value[1]))

\* lines 120-123 and 127-129: the loop over the lines of the open file;
\* recs is the list built so far.  JSONDecodeError leaves the function
\* through `return []`.
RECURSIVE ParseLines(_, _)
ParseLines(lines, recs) ==
    IF lines = <<>> THEN recs                                 \* line 123
    ELSE LET line == Head(lines)
         IN IF line.text = "blank"
            THEN ParseLines(Tail(lines), recs)                \* line 121
            ELSE IF line.text = "not_json"
                 THEN <<>>                                    \* lines 127-129
                 ELSE ParseLines(Tail(lines), Append(recs, line.value[1]))

\* load_json_file(filepath), lines 115-129: FileNotFoundError and
\* JSONDecodeError both end in an empty list
load_json_file(files, k) ==
    IF files[k] = "missing"
    THEN <<>>                                                 \* lines 124-126
    ELSE ParseLines(FileLines(k, files[k]), <<>>)

\* rows of table locations
LocationRows == {[id |-> LOCATIONS[n], location_name |-> n] : n \in DOMAIN LOCATIONS}

\* Faulty variant: insert_locations without conn.commit(); its rows are lost
\* when the next step starts its transaction.
InsertLocationsUncommitted(table) == table

\* lines 56-61: INSERT INTO locations ... ON CONFLICT (id) DO NOTHING, for
\* every entry of LOCATIONS
InsertLocations(table) ==
    table \cup {l \in LocationRows : \A x \in table : x.id # l.id}

\* weather rows whose location_id has no row in locations
Orphans(table, locs) ==
    {r \in BagToSet(table) : \A l \in locs : l.id # r.location_id}

\* Faulty variant: the statement that restores the constraint is not run.
NoConstraintChange(present) == present

\* lines 79-83: ALTER TABLE ... DROP CONSTRAINT IF EXISTS, committed
DropConstraint(present) == FALSE

\* lines 99-105: ALTER TABLE ... ADD CONSTRAINT, committed
AddConstraint(present) == TRUE

InitMain ==
    /\ weather_data \in InitStores
    /\ locations \in SUBSET LocationRows
    /\ fk_present \in BOOLEAN
    /\ fk_present => Orphans(weather_data, locations) = {}
    /\ input_files \in [DOMAIN INPUT_FILES -> FileKinds]
    /\ pc = "connect_db"
    /\ next_file = 1
    /\ conn = "not_connected"
    /\ failed_step = None
    /\ exit_code = None
    /\ original = Some([weather_data |-> weather_data,
                        locations |-> locations,
                        fk_present |-> fk_present])
    /\ first_run = None
    /\ records = <<>>
    /\ data_type = "historical"
    /\ outcomes = <<>>
    /\ faults = <<>>
    /\ snapshots = <<>>
    /\ results = <<>>
    /\ IdleMerge
    /\ IdleValidate
    /\ IdleWrite
    /\ IdleLocation
    /\ IdleReport
    /\ IdleFetch
    /\ IdlePipeline

\* lines 284-289: the exception of a step is logged, sys.exit(1) is called
\* and the connection is closed on the way out
ExitOnError(step) ==
    /\ failed_step' = Some(step)
    /\ exit_code' = Some(1)
    /\ conn' = "closed"
    /\ pc' = "exited"

\* connect_db(), lines 38-47: a failed connection exits at once
connect_db(fault) ==
    /\ pc = "connect_db"
    /\ IF fault
       THEN /\ failed_step' = Some("connect_db")
            /\ exit_code' = Some(1)
            /\ pc' = "exited"
            /\ UNCHANGED conn
       ELSE /\ conn' = "open"
            /\ pc' = "insert_locations"
            /\ UNCHANGED <<failed_step, exit_code>>
    /\ UNCHANGED <<next_file, input_files, locations, fk_present>>
    /\ UNCHANGED <<original, first_run>>
    /\ UNCHANGED <<loaderVars, mergeVars, validateVars, writerVars, locationVars,
                    reportVars, fetchVars, pipelineVars>>

\* insert_locations(conn), lines 50-70
insert_locations(fault) ==
    /\ pc = "insert_locations"
    /\ IF fault
       THEN /\ ExitOnError("insert_locations")
            /\ UNCHANGED locations                               \* rollback
       ELSE /\ locations' = InsertLocations(locations)
            /\ pc' = "drop_foreign_key"
            /\ UNCHANGED <<failed_step, exit_code, conn>>
    /\ UNCHANGED <<next_file, input_files, fk_present>>
    /\ UNCHANGED <<original, first_run>>
    /\ UNCHANGED <<loaderVars, mergeVars, validateVars, writerVars, locationVars,
                    reportVars, fetchVars, pipelineVars>>

\* drop_foreign_key(conn), lines 73-90
drop_foreign_key(fault) ==
    /\ pc = "drop_foreign_key"
    /\ IF fault
       THEN /\ ExitOnError("drop_foreign_key")
            /\ UNCHANGED fk_present                              \* rollback
       ELSE /\ fk_present' = DropConstraint(fk_present)
            /\ pc' = "load_files"
            /\ UNCHANGED <<failed_step, exit_code, conn>>
    /\ UNCHANGED <<next_file, input_files, locations>>
    /\ UNCHANGED <<original, first_run>>
    /\ UNCHANGED <<loaderVars, mergeVars, validateVars, writerVars, locationVars,
                    reportVars, fetchVars, pipelineVars>>

\* one turn of the loops of lines 257-263 and 267-273: the next file is
\* read and its records are inserted
load_file(fault) ==
    /\ pc = "load_files"
    /\ LET recs == load_json_file(input_files, next_file)
       IN /\ insert_weather_data(recs, INPUT_FILES[next_file].data_type, fault)
          /\ IF recs # <<>> /\ fault
             THEN /\ ExitOnError("insert_weather_data")
                  /\ UNCHANGED next_file
             ELSE /\ next_file' = next_file + 1
                  /\ pc' = IF next_file = Len(INPUT_FILES)
                           THEN "recreate_foreign_key" ELSE "load_files"
                  /\ UNCHANGED <<failed_step, exit_code, conn>>
    /\ UNCHANGED <<input_files, locations, fk_present>>
    /\ UNCHANGED <<original, first_run>>

\* recreate_foreign_key(conn), lines 93-112: the statement fails when the
\* store fails, when the constraint exists already and when a weather row
\* has no location
recreate_foreign_key(fault) ==
    /\ pc = "recreate_foreign_key"
    /\ IF fault \/ fk_present \/ Orphans(weather_data, locations) # {}
       THEN /\ ExitOnError("recreate_foreign_key")
            /\ UNCHANGED fk_present                              \* rollback
       ELSE /\ fk_present' = AddConstraint(fk_present)
            /\ pc' = "verify_data"
            /\ UNCHANGED <<failed_step, exit_code, conn>>
    /\ UNCHANGED <<next_file, input_files, locations>>
    /\ UNCHANGED <<original, first_run>>
    /\ UNCHANGED <<loaderVars, mergeVars, validateVars, writerVars, locationVars,
                    reportVars, fetchVars, pipelineVars>>

\* verify_data(conn), lines 193-238, which reads only and catches its own
\* psycopg2.Error; then the success message and the end of main
verify_data ==
    /\ pc = "verify_data"
    /\ pc' = "exited"
    /\ exit_code' = Some(0)
    /\ conn' = "closed"
    /\ UNCHANGED <<next_file, input_files, locations, fk_present, failed_step>>
    /\ UNCHANGED <<original, first_run>>
    /\ UNCHANGED <<loaderVars, mergeVars, validateVars, writerVars, locationVars,
                    reportVars, fetchVars, pipelineVars>>

NextMain ==
    \/ \E fault \in BOOLEAN : connect_db(fault)
    \/ \E fault \in BOOLEAN : insert_locations(fault)
    \/ \E fault \in BOOLEAN : drop_foreign_key(fault)
    \/ \E fault \in BOOLEAN : load_file(fault)
    \/ \E fault \in BOOLEAN : recreate_foreign_key(fault)
    \/ verify_data

SpecMain == InitMain /\ [][NextMain]_vars

(***************************************************************************)
(* Batch loader, one run: properties                                       *)
(***************************************************************************)
LoadingCompleted == next_file > Len(INPUT_FILES)

\* C19: the constraint is absent whenever the run is about to insert
\* weather rows, so it was dropped before the first insert; a run that has
\* loaded all its files ends either with the constraint present and exit
\* status 0, or, when recreate_foreign_key failed, with exit status 1; no
\* run ends with status 0 and the constraint absent.
C19_ForeignKeyRestored ==
    /\ pc = "load_files" => ~fk_present
    /\ (pc = "exited" /\ LoadingCompleted) =>
          \/ fk_present /\ exit_code = <<0>> /\ failed_step = None
          \/ /\ failed_step = <<"recreate_foreign_key">>
             /\ exit_code = <<1>>
    /\ (pc = "exited" /\ exit_code = <<0>>) => fk_present /\ LoadingCompleted

\* a run that found the constraint, added rows from its files and ended
\* with status 0 and the constraint back
C19_Witness ==
    /\ pc = "exited"
    /\ exit_code = <<0>>
    /\ fk_present
    /\ Len(outcomes) = Len(INPUT_FILES)
    /\ BagCardinality(weather_data) > BagCardinality(snapshots[1])

\* C20: when insert_weather_data fails with a store error, the store holds
\* the rows it held when the call started (none of the call's rows is
\* committed), the call raised, and the run ended with exit status 1 and
\* its connection closed, without taking a further step.
C20_FailedInsertRollsBack ==
    failed_step = <<"insert_weather_data">> =>
        /\ Last(outcomes) = "raised"
        /\ Last(faults)
        /\ weather_data = Last(snapshots)
        /\ exit_code = <<1>>
        /\ pc = "exited"
        /\ conn = "closed"
        /\ Len(outcomes) = next_file

\* the second file's insert failed after the first file's rows were
\* committed: those stay, and the failing call would have added rows
C20_Witness ==
    /\ failed_step = <<"insert_weather_data">>
    /\ Len(outcomes) = 2
    /\ outcomes[1] = "committed"
    /\ snapshots[2] # snapshots[1]
    /\ weather_data = snapshots[2]
    /\ ExecuteBatch(weather_data, PrepareInsertData(records, data_type))
           # weather_data
    /\ exit_code = <<1>>

(***************************************************************************)
(* Report engine: one run of main(), generate_report.py:255-285            *)
(***************************************************************************)
\* lines 269-276: the calls inside the try, in the order main makes them
REPORT_STEPS ==
    <<"query_1_temperature_averages", "query_2_rainy_days",
      "query_3_extreme_temperatures", "query_4_monthly_precipitation_2024",
      "query_5_forecast_comparison", "generate_summary">>

\* the aggregate queries among them
REPORT_QUERIES == 1..5

\* Faulty variant: a try/except around each call; after a call raised the
\* run goes on with the call that follows it.
AbortSection(k) == k + 1

\* lines 280-282: the one except clause of main ends the process, so the
\* position after a call raised is past the last call
AbortReport(k) == Len(REPORT_STEPS) + 1

\* what the report reads: any store the loader can have left behind
InitReport ==
    /\ weather_data \in InitStores
    /\ locations \in SUBSET LocationRows
    /\ report_pc = "connect_db"
    /\ report_next = 1
    /\ sections = <<>>
    /\ report_failed = <<>>
    /\ report_conn = "not_connected"
    /\ report_exit = None
    /\ records = <<>>
    /\ data_type = "historical"
    /\ outcomes = <<>>
    /\ faults = <<>>
    /\ snapshots = <<>>
    /\ results = <<>>
    /\ pc = "not_started"
    /\ next_file = 1
    /\ input_files = <<>>
    /\ fk_present = TRUE
    /\ conn = "not_connected"
    /\ failed_step = <<>>
    /\ exit_code = <<>>
    /\ original = <<>>
    /\ first_run = <<>>
    /\ IdleMerge
    /\ IdleValidate
    /\ IdleWrite
    /\ IdleLocation
    /\ IdleFetch
    /\ IdlePipeline

\* connect_db(), generate_report.py:33-40, and line 265
report_connect_db(fault) ==
    /\ report_pc = "connect_db"
    /\ IF fault
       THEN /\ report_exit' = Some(1)                       \* line 40
            /\ report_pc' = "exited"
            /\ UNCHANGED report_conn
       ELSE /\ report_conn' = "open"
            /\ report_pc' = "try"
            /\ UNCHANGED report_exit
    /\ UNCHANGED <<report_next, sections, report_failed>>
    /\ UNCHANGED <<loaderVars, mergeVars, validateVars, writerVars, locationVars,
                   mainVars, fetchVars, pipelineVars>>

\* one call of lines 269-276; fault: the call raises (the store rejects the
\* statement, the connection is lost, a value cannot be formatted).  The
\* queries only read the store.  When no call is left the run ends: through
\* line 278 with status 0, or through lines 280-282 with status 1, and
\* through the finally clause, lines 283-285, either way.
report_step(fault) ==
    /\ report_pc = "try"
    /\ LET step == REPORT_STEPS[report_next]
           failed == IF fault THEN Append(report_failed, step)
                     ELSE report_failed
           position == IF fault THEN AbortReport(report_next)
                       ELSE report_next + 1
       IN /\ report_failed' = failed
          /\ sections' = IF fault THEN sections ELSE Append(sections, step)
          /\ report_next' = position
          /\ IF position > Len(REPORT_STEPS)
             THEN /\ report_pc' = "exited"
                  /\ report_exit' = Some(IF failed = <<>> THEN 0 ELSE 1)
                  /\ report_conn' = "closed"
             ELSE UNCHANGED <<report_pc, report_exit, report_conn>>
    /\ UNCHANGED <<loaderVars, mergeVars, validateVars, writerVars, locationVars,
                   mainVars, fetchVars, pipelineVars>>

NextReport ==
    \/ \E fault \in BOOLEAN : report_connect_db(fault)
    \/ \E fault \in BOOLEAN : report_step(fault)

SpecReport == InitReport /\ [][NextReport]_vars

(***************************************************************************)
(* Report engine: properties                                               *)
(***************************************************************************)
\* position in REPORT_STEPS of the first call that raised
FirstFailed == CHOOSE k \in DOMAIN REPORT_STEPS : REPORT_STEPS[k] = report_failed[1]

Printed(k) == \E i \in DOMAIN sections : sections[i] = REPORT_STEPS[k]

\* C21 as stated: a run in which an aggregate query failed has, when it
\* ends, run the queries that come after the failed one.
C21_AsStated ==
    (report_pc = "exited" /\ report_failed # <<>>
        /\ FirstFailed \in REPORT_QUERIES) =>
        \A k \in REPORT_QUERIES : k > FirstFailed => Printed(k)

\* C21: a failure of one aggregate query ends the whole report: the run has
\* printed the sections of the queries before the failed one and of no
\* other, none of the remaining queries runs (no second failure either),
\* the process exits with status 1 and its connection is closed.
C21_FailureEndsReport ==
    (report_failed # <<>> /\ FirstFailed \in REPORT_QUERIES) =>
        /\ report_pc = "exited"
        /\ Len(report_failed) = 1
        /\ sections = SubSeq(REPORT_STEPS, 1, FirstFailed - 1)
        /\ \A k \in DOMAIN REPORT_STEPS : k >= FirstFailed => ~Printed(k)
        /\ report_exit = <<1>>
        /\ report_conn = "closed"

\* the second query failed after the first was printed
C21_Witness ==
    /\ report_pc = "exited"
    /\ report_failed = <<"query_2_rainy_days">>
    /\ sections = <<"query_1_temperature_averages">>
    /\ report_exit = <<1>>
    /\ BagCardinality(weather_data) > 0

(***************************************************************************)
(* Fetch client: WeatherAPIClient._fetch_data, api_client.py:114-155       *)
(***************************************************************************)
\* line 167
REQUIRED_PARAMS == <<"latitude", "longitude", "daily", "timezone">>

\* argument params: the required keys it holds and, when it holds them, the
\* values of 'latitude' and 'longitude'
FetchParams ==
    [present : SUBSET {REQUIRED_PARAMS[i] : i \in DOMAIN REQUIRED_PARAMS},
     latitude : Latitudes,
     longitude : Longitudes]

\* _validate_params(params), lines 167-178: None, or the message of the
\* ValueError it raises
ValidateParams(params) ==
    LET missing == {i \in DOMAIN REQUIRED_PARAMS :
                        REQUIRED_PARAMS[i] \notin params.present}
        first == CHOOSE i \in missing : \A j \in missing : i <= j
    IN IF missing # {}
       THEN Some("missing " \o REQUIRED_PARAMS[first])       \* lines 169-171
       ELSE IF ~(-90 <= params.latitude /\ params.latitude <= 90)
            THEN Some("invalid latitude")                    \* lines 174-175
            ELSE IF ~(-180 <= params.longitude /\ params.longitude <= 180)
                 THEN Some("invalid longitude")              \* lines 177-178
                 ELSE None

\* what the request of line 134 and the processing of line 143 can end in:
\* the transport fails, the API answers with no response, the response
\* cannot be processed, or it holds the given number of days
ApiResults ==
    {[result |-> r, days |-> 0] :
        r \in {"RequestException", "no_responses", "KeyError"}}
    \cup {[result |-> "response", days |-> n] : n \in 0..MaxDate}

\* _process_response(response, location), lines 193-215
ProcessResponse(api) ==
    [dates |-> "datetime",
     rows |-> [d \in 1..api.days |->
                  [day |-> d, location |-> "iowa_center", temp |-> 10]]]

\* classes of the exceptions raised inside the try of _fetch_data
FetchExceptionClasses == {"RequestException", "ValueError", "KeyError"}

\* Faulty variant: the except clause for RequestException only.
ExceptRequestException(error) == error = "RequestException"

\* lines 145-155: `except RequestException`, `except ValueError` and
\* `except Exception`; each logs and returns pd.DataFrame()
FetchExcept(error) == error \in FetchExceptionClasses

InitFetch ==
    /\ fetch_params \in FetchParams
    /\ api_requests = 0
    /\ fetch_outcome = None
    /\ IdleLoad
    /\ IdleMerge
    /\ IdleValidate
    /\ IdleWrite
    /\ IdleLocation
    /\ IdleMain
    /\ IdleReport
    /\ IdlePipeline

\* _fetch_data(url, params, location, data_type), lines 128-155; api: what
\* the API does with the request, when one is sent
fetch_data(api) ==
    /\ fetch_outcome = None
    /\ LET rejected == ValidateParams(fetch_params)                \* line 130
           error == IF rejected # None THEN Some("ValueError")
                    ELSE IF api.result = "response" THEN None
                    ELSE IF api.result = "no_responses"
                         THEN Some("ValueError")              \* lines 136-137
                         ELSE Some(api.result)
           logged == IF rejected # None THEN rejected
                     ELSE IF error # None THEN Some(api.result)
                     ELSE None
       IN /\ api_requests' = IF rejected # None THEN api_requests
                             ELSE api_requests + 1                 \* line 134
          /\ fetch_outcome' =
                Some(IF error = None
                     THEN [returned |-> Some(ProcessResponse(api)),
                           raised |-> None, logged |-> logged]
                     ELSE IF FetchExcept(error[1])
                          THEN [returned |-> Some(EmptyFrame),
                                raised |-> None, logged |-> logged]
                          ELSE [returned |-> None, raised |-> error,
                                logged |-> None])
    /\ UNCHANGED fetch_params
    /\ UNCHANGED <<loaderVars, mergeVars, validateVars, writerVars, locationVars,
                   mainVars, reportVars, pipelineVars>>

NextFetch == \E api \in ApiResults : fetch_data(api)

SpecFetch == InitFetch /\ [][NextFetch]_vars

(***************************************************************************)
(* Fetch client: properties                                                *)
(***************************************************************************)
\* the call was made with params that _validate_params rejects
Rejected == fetch_outcome # None /\ ValidateParams(fetch_params) # None

\* C22 as stated: when _validate_params rejects the params, the call of
\* _fetch_data raises the ValueError to its caller.
C22_AsStated ==
    Rejected => fetch_outcome[1].raised = <<"ValueError">>

\* C22: when _validate_params rejects the params (a required parameter is
\* missing, or the latitude or longitude is out of range) the ValueError is
\* raised before any request is sent, and _fetch_data catches it: the call
\* logs the rejection, raises nothing and returns an empty frame.
C22_RejectionSwallowed ==
    Rejected =>
        /\ api_requests = 0
        /\ fetch_outcome[1].raised = None
        /\ fetch_outcome[1].returned = Some(EmptyFrame)
        /\ fetch_outcome[1].logged = ValidateParams(fetch_params)

\* every required parameter is there and the latitude is 91
C22_Witness ==
    /\ fetch_outcome # None
    /\ fetch_params.present = {"latitude", "longitude", "daily", "timezone"}
    /\ fetch_params.latitude = 91
    /\ fetch_outcome[1].logged = <<"invalid latitude">>
    /\ fetch_outcome[1].returned = Some(EmptyFrame)

(***************************************************************************)
(* Batch loader: main() run again after it ended, load_data.py:241-293     *)
(***************************************************************************)
\* the second run of a retry is a complete one: no step of it fails
RunFaults == IF first_run = None THEN BOOLEAN ELSE {FALSE}

\* the script is started again on the same DATA_PATH and the same store;
\* first_run keeps how the earlier run ended and what it left in the store
Retry ==
    /\ pc = "exited"
    /\ first_run = None
    /\ first_run' = Some([failed_step |-> failed_step,
                          weather_data |-> weather_data,
                          locations |-> locations,
                          fk_present |-> fk_present])
    /\ pc' = "connect_db"
    /\ next_file' = 1
    /\ conn' = "not_connected"
    /\ failed_step' = None
    /\ exit_code' = None
    /\ records' = <<>>
    /\ data_type' = "historical"
    /\ outcomes' = <<>>
    /\ faults' = <<>>
    /\ snapshots' = <<>>
    /\ results' = <<>>
    /\ UNCHANGED <<weather_data, input_files, locations, fk_present, original>>
    /\ UNCHANGED <<mergeVars, validateVars, writerVars, locationVars,
                   reportVars, fetchVars, pipelineVars>>

NextRetry ==
    \/ \E fault \in RunFaults : connect_db(fault)
    \/ \E fault \in RunFaults : insert_locations(fault)
    \/ \E fault \in RunFaults : drop_foreign_key(fault)
    \/ \E fault \in RunFaults : load_file(fault)
    \/ \E fault \in RunFaults : recreate_foreign_key(fault)
    \/ verify_data
    \/ Retry

SpecRetry == InitMain /\ [][NextRetry]_vars

(***************************************************************************)
(* Batch loader, one run and its retry: properties                         *)
(***************************************************************************)
\* the store before the first run
OriginalStore == original[1]

\* table locations once the registry's rows are committed
ExpectedLocations ==
    OriginalStore.locations
    \cup {l \in LocationRows : \A x \in OriginalStore.locations : x.id # l.id}

\* the rows the records of input file k stand for
FileRows(k) ==
    {[location_id |-> LOCATIONS[r.location],
      date |-> r.date,
      data_type |-> INPUT_FILES[k].data_type,
      value |-> r.value] :
        r \in {FileRecords(k)[i] : i \in
                  {j \in DOMAIN FileRecords(k) :
                      FileRecords(k)[j].location \in DOMAIN LOCATIONS}}}

\* table weather_data once the first n input files are loaded: the rows
\* of the original store, and the rows of the files that are there and
\* well-formed under the keys the original store did not hold (no two
\* input files share a key)
ExpectedStore(n) ==
    LET loaded_rows == UNION {FileRows(k) :
                              k \in {j \in 1..n : input_files[j] = "valid"}}
    IN SetToBag(BagToSet(OriginalStore.weather_data)
                \cup {r \in loaded_rows :
                         ~HasKey(OriginalStore.weather_data, RowKey(r))})

Succeeded == pc = "exited" /\ exit_code = <<0>>

\* steps of the run that have completed
LocationsInserted ==
    \/ pc \in {"drop_foreign_key", "load_files", "recreate_foreign_key",
               "verify_data"}
    \/ failed_step \in {<<"drop_foreign_key">>, <<"insert_weather_data">>,
                        <<"recreate_foreign_key">>}
    \/ Succeeded

ConstraintDropped ==
    \/ pc \in {"load_files", "recreate_foreign_key", "verify_data"}
    \/ failed_step \in {<<"insert_weather_data">>, <<"recreate_foreign_key">>}
    \/ Succeeded

ConstraintRestored == pc = "verify_data" \/ Succeeded

FilesLoaded == next_file - 1

\* C23: the steps run in the order insert locations, drop constraint,
\* insert historical files, insert forecast files, restore constraint, and
\* in every state of a run, also after a step failed, the store holds
\* exactly the effects of the steps completed so far: the registry's
\* locations once insert_locations completed, the constraint absent once
\* drop_foreign_key completed and present once recreate_foreign_key
\* completed, and the rows of the files loaded so far.
C23_StepsCommitInOrder ==
    /\ FilesLoaded > 0 => ConstraintDropped
    /\ ConstraintDropped => LocationsInserted
    /\ ConstraintRestored => FilesLoaded = Len(INPUT_FILES)
    /\ \A i, j \in DOMAIN INPUT_FILES :
          (INPUT_FILES[i].data_type = "historical"
              /\ INPUT_FILES[j].data_type = "forecast") => i < j
    /\ Len(outcomes) > 0 => data_type = INPUT_FILES[Len(outcomes)].data_type
    /\ locations = IF LocationsInserted THEN ExpectedLocations
                   ELSE OriginalStore.locations
    /\ fk_present = IF ConstraintRestored THEN TRUE
                    ELSE IF ConstraintDropped THEN FALSE
                    ELSE OriginalStore.fk_present
    /\ weather_data = ExpectedStore(FilesLoaded)

\* the insert of the third file failed: the locations, the dropped
\* constraint and the rows of the first two files remain
C23_Witness ==
    /\ failed_step = <<"insert_weather_data">>
    /\ next_file = 3
    /\ locations # OriginalStore.locations
    /\ OriginalStore.fk_present
    /\ ~fk_present
    /\ BagCardinality(weather_data)
           >= BagCardinality(OriginalStore.weather_data) + 2

\* C24: a run that failed in an insert of weather rows or in
\* recreate_foreign_key itself ended at once with exit status 1 and the
\* constraint absent; recreate_foreign_key is only ever started by a run in
\* which no step failed, and after a failed insert the loading is not
\* completed.
C24_ConstraintLeftDropped ==
    /\ failed_step \in {<<"insert_weather_data">>, <<"recreate_foreign_key">>}
          => /\ pc = "exited"
             /\ exit_code = <<1>>
             /\ ~fk_present
    /\ failed_step = <<"insert_weather_data">> => next_file <= Len(INPUT_FILES)
    /\ pc \in {"recreate_foreign_key", "verify_data"} => failed_step = None

\* the store had the constraint, the insert of the last file failed
C24_Witness ==
    /\ pc = "exited"
    /\ failed_step = <<"insert_weather_data">>
    /\ next_file = Len(INPUT_FILES)
    /\ OriginalStore.fk_present
    /\ ~fk_present
    /\ exit_code = <<1>>

\* C25: a complete run ends with status 0, the constraint present, the
\* registry's locations and the rows of the original store and of the
\* input files; and a complete run started after an earlier run ended,
\* wherever that one failed, ends in that same state.
C25_RetryEqualsCompleteRun ==
    (pc = "exited" /\ (first_run # None \/ exit_code = <<0>>)) =>
        /\ exit_code = <<0>>
        /\ fk_present
        /\ locations = ExpectedLocations
        /\ weather_data = ExpectedStore(Len(INPUT_FILES))

\* the first run committed rows and then failed in an insert; the retry
\* added the rows that were left
C25_Witness ==
    /\ first_run # None
    /\ first_run[1].failed_step = <<"insert_weather_data">>
    /\ first_run[1].weather_data # OriginalStore.weather_data
    /\ ~first_run[1].fk_present
    /\ pc = "exited"
    /\ exit_code = <<0>>
    /\ weather_data # first_run[1].weather_data

\* C28: in every state of a run that started from a store without orphan
\* rows, every weather row has a row in locations with its location_id,
\* every row the run added carries an id of LOCATIONS, and rows were only
\* added after insert_locations completed.
C28_NoOrphans ==
    Orphans(OriginalStore.weather_data, OriginalStore.locations) = {} =>
        /\ Orphans(weather_data, locations) = {}
        /\ \A r \in BagToSet(weather_data) \ BagToSet(OriginalStore.weather_data) :
              r.location_id \in LocationIds
        /\ weather_data # OriginalStore.weather_data => LocationsInserted

\* table locations was empty; rows of both locations are in while the
\* constraint is dropped
C28_Witness ==
    /\ OriginalStore.locations = {}
    /\ OriginalStore.weather_data = EmptyBag
    /\ pc = "load_files"
    /\ ~fk_present
    /\ \A id \in LocationIds : \E r \in BagToSet(weather_data) : r.location_id = id

\* the store as the k-th insert of the run left it
StoreAfter(k) == IF k < Len(snapshots) THEN snapshots[k + 1] ELSE weather_data

\* C29: for every input file read so far that is missing or malformed, the
\* call of insert_weather_data got an empty list, ended without touching
\* the store and did not raise, so the run went on to the next file.
C29_BadFileSkipped ==
    \A k \in 1..Len(outcomes) :
        input_files[k] # "valid" =>
            /\ outcomes[k] = "no_records"
            /\ StoreAfter(k) = snapshots[k]
            /\ k = Len(outcomes) => records = <<>>
            /\ next_file > k

\* a malformed and a missing file, then a file whose rows were added, and
\* the run ended with status 0
C29_Witness ==
    /\ pc = "exited"
    /\ exit_code = <<0>>
    /\ input_files[1] = "malformed"
    /\ input_files[2] = "missing"
    /\ input_files[3] = "valid"
    /\ BagCardinality(StoreAfter(3)) > BagCardinality(snapshots[3])

(***************************************************************************)
(* Collector pipeline: WeatherDataPipeline.run_pipeline, main.py:184-263   *)
(***************************************************************************)
\* config.py:61-64: the names of WeatherConfig.LOCATIONS, in list order
CONFIG_LOCATIONS == <<"iowa_center", "illinois_center">>

\* argument locations: None, or a list of names, registered or not
RequestedLists ==
    {None} \cup {Some(names) : names \in UNION {[1..n -> LocationNames] : n \in 0..MaxRequested}}

RunFlags ==
    [include_historical : BOOLEAN, include_forecast : BOOLEAN,
     create_combined : BOOLEAN]

\* how the body of process_location_historical / process_location_forecast
\* can go: the file is saved, the fetched frame is empty, the quality
\* report says "error", save_to_json returns False, or a statement of the
\* try block raises
ProcessOutcomes ==
    {"saved", "empty", "invalid", "not_saved", "TypeError", "OSError"}

\* Faulty variant: `except OSError` in place of `except Exception`.
ExceptOSError(error) == error = "OSError"

\* main.py:89 and 134: except Exception
ProcessExcept(error) == error \in ExceptionClasses

\* process_location_historical(location), lines 62-91, and
\* process_location_forecast(location), lines 105-136
ProcessLocation(outcome) ==
    IF outcome = "saved" THEN Returned(TRUE)                  \* lines 82-84
    ELSE IF outcome \in {"empty", "invalid", "not_saved"}
         THEN Returned(FALSE)                                 \* lines 68, 74, 87
         ELSE IF ProcessExcept(outcome)
              THEN Returned(FALSE)                            \* lines 89-91
              ELSE Raised(outcome)

\* what the fetch of lines 233 and 239 can return: an empty frame, or a
\* frame with a row of the location
FetchedFrames(name) ==
    {EmptyFrame,
     [dates |-> "datetime",
      rows |-> <<[day |-> 1, location |-> name, temp |-> 10]>>]}

\* lines 204-209: locations_to_process
LocationsToProcess(names) ==
    IF names = None \/ names = Some(<<>>)
    THEN CONFIG_LOCATIONS
    ELSE LET Wanted(n) == \E i \in DOMAIN names[1] : names[1][i] = n
         IN SelectSeq(CONFIG_LOCATIONS, Wanted)

\* results[name] = entry on a dict kept in insertion order
DictSet(entries, name, entry) ==
    IF \E i \in DOMAIN entries : entries[i].name = name
    THEN [i \in DOMAIN entries |->
             IF entries[i].name = name THEN [name |-> name, entry |-> entry]
             ELSE entries[i]]
    ELSE Append(entries, [name |-> name, entry |-> entry])

InitPipeline ==
    /\ run_flags \in RunFlags
    /\ requested \in RequestedLists
    /\ pipeline_pc = "filter_locations"
    /\ to_process = <<>>
    /\ processed = 0
    /\ pipeline_results = <<>>
    /\ pipeline_log = <<>>
    /\ pipeline_outcome = None
    /\ IdleLoad
    /\ IdleMerge
    /\ IdleValidate
    /\ IdleWrite
    /\ IdleLocation
    /\ IdleMain
    /\ IdleReport
    /\ IdleFetch

\* lines 203-215
filter_locations ==
    /\ pipeline_pc = "filter_locations"
    /\ to_process' = LocationsToProcess(requested)
    /\ IF to_process' = <<>>
       THEN /\ pipeline_outcome' = Some(Returned(<<>>))        \* line 213
            /\ pipeline_pc' = "ended"
       ELSE /\ pipeline_pc' = "loop"
            /\ UNCHANGED pipeline_outcome
    /\ UNCHANGED <<run_flags, requested, processed, pipeline_results,
                   pipeline_log>>
    /\ UNCHANGED <<loaderVars, mergeVars, validateVars, writerVars, locationVars,
                   mainVars, reportVars, fetchVars>>

\* one turn of the loop of lines 217-258, and lines 261-263 after the last.
\* historical and forecast: how the two process_location_ calls go, when
\* they are made; h and f: what the fetches of lines 233 and 239 return;
\* saved: what save_to_json returns for the combined frame.
process_next_location(historical, forecast, h, f, saved) ==
    /\ pipeline_pc = "loop"
    /\ LET name == to_process[processed + 1]
           hist_call == IF run_flags.include_historical         \* line 230
                        THEN Some(ProcessLocation(historical)) ELSE None
           hist_raised == hist_call # None /\ hist_call[1].raised # None
           hist_ok == hist_call # None /\ hist_call[1].returned = Some(TRUE)
           fore_call == IF run_flags.include_forecast /\ ~hist_raised
                        THEN Some(ProcessLocation(forecast)) ELSE None
           fore_raised == fore_call # None /\ fore_call[1].raised # None
           fore_ok == fore_call # None /\ fore_call[1].returned = Some(TRUE)
           df_h == IF hist_ok THEN h ELSE EmptyFrame            \* 226, 233
           df_f == IF fore_ok THEN f ELSE EmptyFrame            \* 227, 239
           merged == IF run_flags.create_combined /\ hist_ok /\ fore_ok
                     THEN IF EitherEmpty(df_h, df_f) THEN None
                          ELSE Some(Combine(df_h, df_f, "ties_kept"))
                     ELSE None
           entry == [historical |-> hist_ok,
                     forecast |-> fore_ok,
                     combined |-> merged # None /\ saved]       \* 248-255
           log == (IF hist_call # None
                   THEN <<[name |-> name, process |-> "historical",
                           outcome |-> historical]>>
                   ELSE <<>>)
                  \o (IF fore_call # None
                      THEN <<[name |-> name, process |-> "forecast",
                              outcome |-> forecast]>>
                      ELSE <<>>)
       IN /\ pipeline_log' = pipeline_log \o log
          /\ IF hist_raised \/ fore_raised
             THEN /\ pipeline_outcome' =
                        Some(Raised(IF hist_raised THEN historical ELSE forecast))
                  /\ pipeline_pc' = "ended"
                  /\ UNCHANGED <<processed, pipeline_results>>
             ELSE /\ pipeline_results' = DictSet(pipeline_results, name, entry)
                  /\ processed' = processed + 1
                  /\ IF processed' = Len(to_process)
                     THEN /\ pipeline_outcome' = Some(Returned(pipeline_results'))
                          /\ pipeline_pc' = "ended"             \* line 263
                     ELSE UNCHANGED <<pipeline_pc, pipeline_outcome>>
    /\ UNCHANGED <<run_flags, requested, to_process>>
    /\ UNCHANGED <<loaderVars, mergeVars, validateVars, writerVars, locationVars,
                   mainVars, reportVars, fetchVars>>

NextPipeline ==
    \/ filter_locations
    \/ /\ pipeline_pc = "loop"
       /\ \E historical, forecast \in ProcessOutcomes, saved \in BOOLEAN :
             \E h, f \in FetchedFrames(to_process[processed + 1]) :
                process_next_location(historical, forecast, h, f, saved)

SpecPipeline == InitPipeline /\ [][NextPipeline]_vars

(***************************************************************************)
(* Collector pipeline: properties                                          *)
(***************************************************************************)
\* C30: run_pipeline never raises; what it holds in results, and returns,
\* is one entry for each location processed so far, in processing order; it
\* returns only when every location of locations_to_process has its entry,
\* whatever the steps of a location ended in; and in every entry combined
\* implies historical and forecast.
C30_EveryLocationReported ==
    /\ Len(pipeline_results) = processed
    /\ \A i \in DOMAIN pipeline_results :
          /\ pipeline_results[i].name = to_process[i]
          /\ pipeline_results[i].entry.combined =>
                /\ pipeline_results[i].entry.historical
                /\ pipeline_results[i].entry.forecast
    /\ pipeline_outcome # None =>
          /\ pipeline_outcome[1].raised = None
          /\ pipeline_outcome[1].returned = Some(pipeline_results)
          /\ processed = Len(to_process)

\* the historical step of the first location raised inside its try and its
\* forecast step found no data; the second location has all three files
C30_Witness ==
    /\ pipeline_outcome # None
    /\ pipeline_outcome[1].returned # None
    /\ Len(pipeline_results) = 2
    /\ Len(pipeline_log) = 4
    /\ pipeline_log[1] = [name |-> "iowa_center", process |-> "historical",
                          outcome |-> "TypeError"]
    /\ pipeline_log[2].outcome = "empty"
    /\ ~pipeline_results[1].entry.historical
    /\ pipeline_results[2].name = "illinois_center"
    /\ pipeline_results[2].entry.combined

====
